---- MODULE Spec2Model ----
(***************************************************************************)
(* Order packs calculator: the dynamic-programming packing engine          *)
(* (internal/calculator) and the in-memory pack-size store                 *)
(* (internal/storage).                                                     *)
(*                                                                         *)
(*   SpecCalc  - one call of dpCalculator.CalculatePacks, stepped through  *)
(*               its loops, on inputs drawn from bounded sets.             *)
(*   Spec      - goroutines calling MemoryStorage.GetPackSizes and         *)
(*               MemoryStorage.SetPackSizes concurrently, over an explicit *)
(*               heap of slices so that aliasing is visible.               *)
(***************************************************************************)
EXTENDS Integers, Sequences, FiniteSets, TLC

\* ------------------------------------------------------------------------
\* Bounds of the model
\* ------------------------------------------------------------------------
MaxItems == 10
MaxSize == 4
MaxLen == 3
StoreMaxSize == 1

\* ------------------------------------------------------------------------
\* Program constants
\* ------------------------------------------------------------------------
calcMaxPackSizes == 10
storageMaxPackSizes == 10

ErrInvalidItems == "ErrInvalidItems"
ErrInvalidPackSizes == "ErrInvalidPackSizes"
ErrCannotFulfill == "ErrCannotFulfill"
NoErr == "nil"

\* ------------------------------------------------------------------------
\* Inputs
\* ------------------------------------------------------------------------
\* Pack sizes a caller may put in a slice: non-positive ones included.
SizeValues == (0 - 1)..MaxSize

\* 11 distinct values (one more than the limit), and 11 values of which 10
\* are distinct.
TooManyDistinct == [i \in 1..(calcMaxPackSizes + 1) |-> i]
LongWithDuplicate == [i \in 1..(calcMaxPackSizes + 1) |-> IF i > calcMaxPackSizes THEN 1 ELSE i]

\* The slices a caller passes: nil/empty, every short sequence, and the two
\* long ones.
Candidates ==
    UNION {[1..n -> SizeValues] : n \in 0..MaxLen} \cup {TooManyDistinct, LongWithDuplicate}

ItemCounts == (0 - 1)..MaxItems

\* The slices passed to SetPackSizes: nil/empty, the one-element slices over
\* 0..StoreMaxSize, and the shapes the tests of the store use (unsorted with
\* a duplicate, a negative value, 11 distinct values, 11 values of which 10
\* are distinct).
UnsortedWithDuplicate == <<3, 1, 2, 2>>
NegativeFirst == <<0 - 5, 1>>
StoreCandidates ==
    {<<>>} \cup {<<v>> : v \in 0..StoreMaxSize}
        \cup {UnsortedWithDuplicate, NegativeFirst, TooManyDistinct, LongWithDuplicate}

\* The goroutines that call the store.
Procs == {"g1", "g2"}
None == "none"

\* The value a caller writes into a slice it holds (the store's test writes
\* got[0] = 999).
TamperValue == 999

\* ------------------------------------------------------------------------
\* Helpers shared by both packages
\* ------------------------------------------------------------------------
Min(S) == CHOOSE x \in S : \A y \in S : x <= y

\* sort.Ints applied to the keys of a map: the ascending sequence of a set.
RECURSIVE SortInts(_)
SortInts(S) ==
    IF S = {} THEN <<>>
    ELSE LET m == Min(S) IN <<m>> \o SortInts(S \ {m})

\* sort.Ints applied to a slice (duplicates kept): each element goes to the
\* position given by the number of elements that come before it in ascending
\* order.
SortSlice(s) ==
    LET Position(i) ==
            1 + Cardinality({j \in 1..Len(s) : s[j] < s[i] \/ (s[j] = s[i] /\ j < i)})
    IN [r \in 1..Len(s) |-> s[CHOOSE i \in 1..Len(s) : Position(i) = r]]

\* ------------------------------------------------------------------------
\* internal/calculator: normalizePackSizes
\* ------------------------------------------------------------------------
\* Faulty variant of calcUniqueLoop: a pack size of zero passes.
RECURSIVE calcUniqueLoopAcceptsZero(_, _, _)
calcUniqueLoopAcceptsZero(sizes, i, unique) ==
    IF i > Len(sizes) THEN [err |-> NoErr, unique |-> unique]
    ELSE IF sizes[i] < 0 THEN [err |-> ErrInvalidPackSizes, unique |-> {}]
    ELSE LET u == unique \cup {sizes[i]}
         IN IF Cardinality(u) > calcMaxPackSizes
            THEN [err |-> ErrInvalidPackSizes, unique |-> {}]
            ELSE calcUniqueLoopAcceptsZero(sizes, i + 1, u)

\* Lines 72-81: the loop over the sizes, with the set of the values seen.
RECURSIVE calcUniqueLoop(_, _, _)
calcUniqueLoop(sizes, i, unique) ==
    IF i > Len(sizes) THEN [err |-> NoErr, unique |-> unique]
    ELSE IF sizes[i] <= 0 THEN [err |-> ErrInvalidPackSizes, unique |-> {}]
    ELSE LET u == unique \cup {sizes[i]}
         IN IF Cardinality(u) > calcMaxPackSizes
            THEN [err |-> ErrInvalidPackSizes, unique |-> {}]
            ELSE calcUniqueLoop(sizes, i + 1, u)

\* The distinct values of s in the order of their first occurrence.
RECURSIVE FirstOccurrences(_)
FirstOccurrences(s) ==
    IF Len(s) = 0 THEN <<>>
    ELSE LET front == FirstOccurrences(SubSeq(s, 1, Len(s) - 1))
             last == s[Len(s)]
         IN IF \E i \in 1..Len(front) : front[i] = last THEN front ELSE Append(front, last)

\* Faulty variant of calcNormalizePackSizes: the distinct sizes are left in
\* the order of their first occurrence.
calcNormalizeNoSort(sizes) ==
    IF Len(sizes) = 0 THEN [err |-> ErrInvalidPackSizes, val |-> <<>>]
    ELSE LET r == calcUniqueLoop(sizes, 1, {})
         IN IF r.err # NoErr THEN [err |-> r.err, val |-> <<>>]
            ELSE [err |-> NoErr, val |-> FirstOccurrences(sizes)]

\* Lines 67-90.
calcNormalizePackSizes(sizes) ==
    IF Len(sizes) = 0 THEN [err |-> ErrInvalidPackSizes, val |-> <<>>]
    ELSE LET r == calcUniqueLoop(sizes, 1, {})
         IN IF r.err # NoErr THEN [err |-> r.err, val |-> <<>>]
            ELSE [err |-> NoErr, val |-> SortInts(r.unique)]

\* ------------------------------------------------------------------------
\* internal/calculator: dpCalculator.CalculatePacks, one step per loop
\* iteration
\* ------------------------------------------------------------------------
VARIABLES items, packSizes, normalized, dp, choice, sizeIdx, amount,
          remaining, result, calcErr, cpc, earlier

calcVars == <<items, packSizes, normalized, dp, choice, sizeIdx, amount,
              remaining, result, calcErr, cpc, earlier>>

\* The state of the store (described with MemoryStorage below).
VARIABLES heap, storePackSizes, mu, pc, arg, norm, hdr, ret, setErr,
          lastCandidate, before, during, seenPtr

storeVars == <<heap, storePackSizes, mu, pc, arg, norm, hdr, ret, setErr,
               lastCandidate, before, during, seenPtr>>

\* The state of the HTTP handler and of the requests it serves (described
\* with internal/api below).
VARIABLES hpc, req, resp, snap, touched, seen, packSizesUpdatedAt, now, installed, origin

handlerVars == <<hpc, req, resp, snap, touched, seen, packSizesUpdatedAt, now,
                 installed, origin>>

\* The inputs and the state of one call of config.Load (described with
\* internal/config below).
VARIABLES overrides, environ, file, cfg, loadErr, lpc

configVars == <<overrides, environ, file, cfg, loadErr, lpc>>

vars == <<calcVars, storeVars, handlerVars, configVars>>

\* Faulty variant: the sentinel is a cost that a real combination can have.
InfTooSmall(n) == n

\* inf := items + 1
Inf(n) == n + 1

\* Faulty variant of Incr: result[size] = 1.
IncrAssign(m, k) ==
    [x \in DOMAIN m \cup {k} |-> IF x = k THEN 1 ELSE m[x]]

\* The map of counts: result[size]++ on a map[int]int.
Incr(m, k) ==
    IF k \in DOMAIN m THEN [m EXCEPT ![k] = @ + 1]
    ELSE [x \in DOMAIN m \cup {k} |-> IF x = k THEN 1 ELSE m[x]]

EmptyMap == [x \in {} |-> 0]

CalcIdle ==
    /\ items = 0 /\ packSizes = <<>> /\ normalized = <<>> /\ dp = <<>>
    /\ choice = <<>> /\ sizeIdx = 0 /\ amount = 0 /\ remaining = 0
    /\ result = EmptyMap /\ calcErr = NoErr /\ cpc = "idle"
    /\ earlier = <<>>

CalcInit ==
    /\ items \in ItemCounts
    /\ packSizes \in Candidates
    /\ normalized = <<>> /\ dp = <<>> /\ choice = <<>>
    /\ sizeIdx = 0 /\ amount = 0 /\ remaining = 0
    /\ result = EmptyMap /\ calcErr = NoErr /\ cpc = "start"
    /\ earlier = <<>>

CalcReturn(e, r) ==
    /\ calcErr' = e
    /\ result' = r
    /\ cpc' = "done"

\* Faulty variant of CalcAllocate: the entries of choice start at 0, not -1.
CalcAllocateChoiceZero(n) ==
    /\ normalized' = n.val
    /\ dp' = [i \in 0..items |-> IF i = 0 THEN 0 ELSE Inf(items)]
    /\ choice' = [i \in 0..items |-> 0]
    /\ sizeIdx' = 1
    /\ amount' = n.val[1]
    /\ cpc' = "relax"
    /\ UNCHANGED <<result, calcErr>>

\* Lines 31-38: the tables' allocation and the start of the loops.
CalcAllocate(n) ==
    /\ normalized' = n.val
    /\ dp' = [i \in 0..items |-> IF i = 0 THEN 0 ELSE Inf(items)]
    /\ choice' = [i \in 0..items |-> IF i = 0 THEN 0 ELSE 0 - 1]
    /\ sizeIdx' = 1
    /\ amount' = n.val[1]
    /\ cpc' = "relax"
    /\ UNCHANGED <<result, calcErr>>

\* Faulty variant of CalcEnter: the pack sizes are validated before the item
\* count.
CalcEnterSizesFirst ==
    /\ UNCHANGED <<storeVars, handlerVars, configVars>>
    /\ cpc = "start"
    /\ LET n == calcNormalizePackSizes(packSizes) IN
       IF n.err # NoErr THEN
            /\ CalcReturn(n.err, EmptyMap)
            /\ UNCHANGED <<normalized, dp, choice, sizeIdx, amount>>
       ELSE IF items < 0 THEN
            /\ CalcReturn(ErrInvalidItems, EmptyMap)
            /\ UNCHANGED <<normalized, dp, choice, sizeIdx, amount>>
       ELSE IF items = 0 THEN
            /\ CalcReturn(NoErr, EmptyMap)
            /\ normalized' = n.val
            /\ UNCHANGED <<dp, choice, sizeIdx, amount>>
       ELSE IF items < n.val[1] THEN
            /\ CalcReturn(ErrCannotFulfill, EmptyMap)
            /\ normalized' = n.val
            /\ UNCHANGED <<dp, choice, sizeIdx, amount>>
       ELSE CalcAllocate(n)
    /\ UNCHANGED <<earlier, items, packSizes, remaining>>

\* Faulty variant of CalcEnter: no early return for an item count of zero, which
\* then falls into the check against the smallest size.
CalcEnterNoZeroCase ==
    /\ UNCHANGED <<storeVars, handlerVars, configVars>>
    /\ cpc = "start"
    /\ LET n == calcNormalizePackSizes(packSizes) IN
       IF items < 0 THEN
            /\ CalcReturn(ErrInvalidItems, EmptyMap)
            /\ UNCHANGED <<normalized, dp, choice, sizeIdx, amount>>
       ELSE IF n.err # NoErr THEN
            /\ CalcReturn(n.err, EmptyMap)
            /\ UNCHANGED <<normalized, dp, choice, sizeIdx, amount>>
       ELSE IF items < n.val[1] THEN
            /\ CalcReturn(ErrCannotFulfill, EmptyMap)
            /\ normalized' = n.val
            /\ UNCHANGED <<dp, choice, sizeIdx, amount>>
       ELSE CalcAllocate(n)
    /\ UNCHANGED <<earlier, items, packSizes, remaining>>

\* Faulty variant of CalcEnter: the zero case is taken before the pack sizes
\* are validated.
CalcEnterZeroFirst ==
    /\ UNCHANGED <<storeVars, handlerVars, configVars>>
    /\ cpc = "start"
    /\ LET n == calcNormalizePackSizes(packSizes) IN
       IF items < 0 THEN
            /\ CalcReturn(ErrInvalidItems, EmptyMap)
            /\ UNCHANGED <<normalized, dp, choice, sizeIdx, amount>>
       ELSE IF items = 0 THEN
            /\ CalcReturn(NoErr, EmptyMap)
            /\ UNCHANGED <<normalized, dp, choice, sizeIdx, amount>>
       ELSE IF n.err # NoErr THEN
            /\ CalcReturn(n.err, EmptyMap)
            /\ UNCHANGED <<normalized, dp, choice, sizeIdx, amount>>
       ELSE IF items < n.val[1] THEN
            /\ CalcReturn(ErrCannotFulfill, EmptyMap)
            /\ normalized' = n.val
            /\ UNCHANGED <<dp, choice, sizeIdx, amount>>
       ELSE CalcAllocate(n)
    /\ UNCHANGED <<earlier, items, packSizes, remaining>>

\* Lines 17-30: the checks before the tables, in the order of the code.
CalcEnter ==
    /\ UNCHANGED <<storeVars, handlerVars, configVars>>
    /\ cpc = "start"
    /\ LET n == calcNormalizePackSizes(packSizes) IN
       IF items < 0 THEN
            /\ CalcReturn(ErrInvalidItems, EmptyMap)
            /\ UNCHANGED <<normalized, dp, choice, sizeIdx, amount>>
       ELSE IF n.err # NoErr THEN
            /\ CalcReturn(n.err, EmptyMap)
            /\ UNCHANGED <<normalized, dp, choice, sizeIdx, amount>>
       ELSE IF items = 0 THEN
            /\ CalcReturn(NoErr, EmptyMap)
            /\ normalized' = n.val
            /\ UNCHANGED <<dp, choice, sizeIdx, amount>>
       ELSE IF items < n.val[1] THEN
            /\ CalcReturn(ErrCannotFulfill, EmptyMap)
            /\ normalized' = n.val
            /\ UNCHANGED <<dp, choice, sizeIdx, amount>>
       ELSE CalcAllocate(n)
    /\ UNCHANGED <<earlier, items, packSizes, remaining>>

\* Lines 41-47: one iteration of the inner loop.
\* Faulty variant of Relax: an equally cheap alternative overwrites the entry.
RelaxTiesReplace ==
    /\ UNCHANGED <<storeVars, handlerVars, configVars>>
    /\ cpc = "relax"
    /\ amount <= items
    /\ LET size == normalized[sizeIdx]
           prev == amount - size
       IN IF dp[prev] + 1 <= dp[amount]
          THEN /\ dp' = [dp EXCEPT ![amount] = dp[prev] + 1]
               /\ choice' = [choice EXCEPT ![amount] = size]
          ELSE UNCHANGED <<dp, choice>>
    /\ amount' = amount + 1
    /\ UNCHANGED <<earlier, items, packSizes, normalized, sizeIdx, remaining, result, calcErr, cpc>>

\* Faulty variant of Relax: the choice is overwritten by every reachable
\* predecessor, the cost only by a cheaper one.
RelaxChoiceOnly ==
    /\ UNCHANGED <<storeVars, handlerVars, configVars>>
    /\ cpc = "relax"
    /\ amount <= items
    /\ LET size == normalized[sizeIdx]
           prev == amount - size
       IN /\ dp' = IF dp[prev] + 1 < dp[amount]
                   THEN [dp EXCEPT ![amount] = dp[prev] + 1] ELSE dp
          /\ choice' = IF dp[prev] < Inf(items)
                       THEN [choice EXCEPT ![amount] = size] ELSE choice
    /\ amount' = amount + 1
    /\ UNCHANGED <<earlier, items, packSizes, normalized, sizeIdx, remaining, result, calcErr, cpc>>

\* Faulty variant of Relax: any reachable predecessor overwrites the entry.
RelaxLastWins ==
    /\ UNCHANGED <<storeVars, handlerVars, configVars>>
    /\ cpc = "relax"
    /\ amount <= items
    /\ LET size == normalized[sizeIdx]
           prev == amount - size
       IN IF dp[prev] < Inf(items)
          THEN /\ dp' = [dp EXCEPT ![amount] = dp[prev] + 1]
               /\ choice' = [choice EXCEPT ![amount] = size]
          ELSE UNCHANGED <<dp, choice>>
    /\ amount' = amount + 1
    /\ UNCHANGED <<earlier, items, packSizes, normalized, sizeIdx, remaining, result, calcErr, cpc>>

Relax ==
    /\ UNCHANGED <<storeVars, handlerVars, configVars>>
    /\ cpc = "relax"
    /\ amount <= items
    /\ LET size == normalized[sizeIdx]
           prev == amount - size
       IN IF dp[prev] + 1 < dp[amount]
          THEN /\ dp' = [dp EXCEPT ![amount] = dp[prev] + 1]
               /\ choice' = [choice EXCEPT ![amount] = size]
          ELSE UNCHANGED <<dp, choice>>
    /\ amount' = amount + 1
    /\ UNCHANGED <<earlier, items, packSizes, normalized, sizeIdx, remaining, result, calcErr, cpc>>

\* Line 40: the inner loop is over; take the next size, or leave the loops.
NextSize ==
    /\ UNCHANGED <<storeVars, handlerVars, configVars>>
    /\ cpc = "relax"
    /\ amount > items
    /\ IF sizeIdx < Len(normalized)
       THEN /\ sizeIdx' = sizeIdx + 1
            /\ amount' = normalized[sizeIdx + 1]
            /\ cpc' = "relax"
       ELSE /\ cpc' = "check"
            /\ UNCHANGED <<sizeIdx, amount>>
    /\ UNCHANGED <<earlier, items, packSizes, normalized, dp, choice, remaining, result, calcErr>>

\* Lines 50-55.
CheckChoice ==
    /\ UNCHANGED <<storeVars, handlerVars, configVars>>
    /\ cpc = "check"
    /\ IF choice[items] = 0 - 1
       THEN /\ CalcReturn(ErrCannotFulfill, EmptyMap)
            /\ UNCHANGED remaining
       ELSE /\ remaining' = items
            /\ result' = EmptyMap
            /\ cpc' = "reconstruct"
            /\ UNCHANGED calcErr
    /\ UNCHANGED <<earlier, items, packSizes, normalized, dp, choice, sizeIdx, amount>>

\* Lines 55-62: one iteration of the reconstruction loop.
\* Faulty variant of Reconstruct: the count is assigned, not incremented.
ReconstructAssign ==
    /\ UNCHANGED <<storeVars, handlerVars, configVars>>
    /\ cpc = "reconstruct"
    /\ remaining > 0
    /\ LET size == choice[remaining]
       IN IF size <= 0
          THEN /\ CalcReturn(ErrCannotFulfill, EmptyMap)
               /\ UNCHANGED remaining
          ELSE /\ result' = IncrAssign(result, size)
               /\ remaining' = remaining - size
               /\ UNCHANGED <<calcErr, cpc>>
    /\ UNCHANGED <<earlier, items, packSizes, normalized, dp, choice, sizeIdx, amount>>

Reconstruct ==
    /\ UNCHANGED <<storeVars, handlerVars, configVars>>
    /\ cpc = "reconstruct"
    /\ remaining > 0
    /\ LET size == choice[remaining]
       IN IF size <= 0
          THEN /\ CalcReturn(ErrCannotFulfill, EmptyMap)
               /\ UNCHANGED remaining
          ELSE /\ result' = Incr(result, size)
               /\ remaining' = remaining - size
               /\ UNCHANGED <<calcErr, cpc>>
    /\ UNCHANGED <<earlier, items, packSizes, normalized, dp, choice, sizeIdx, amount>>

\* Line 64.
ReturnResult ==
    /\ UNCHANGED <<storeVars, handlerVars, configVars>>
    /\ cpc = "reconstruct"
    /\ remaining <= 0
    /\ CalcReturn(NoErr, result)
    /\ UNCHANGED <<earlier, items, packSizes, normalized, dp, choice, sizeIdx, amount, remaining>>

\* The same sizes as a caller may pass them again: as they were, in the
\* opposite order, and with the first one repeated at the end.
Reverse(s) == [i \in 1..Len(s) |-> s[Len(s) + 1 - i]]

Reorderings(s) ==
    {s, Reverse(s)} \cup (IF Len(s) = 0 THEN {} ELSE {s \o <<s[1]>>})

\* A second call of CalculatePacks with the same item count and the same
\* sizes, after the first has returned. The outcome of the first call is
\* kept in earlier; the locals of the first call are what the second finds
\* in memory.
CalcAgain ==
    /\ UNCHANGED <<storeVars, handlerVars, configVars>>
    /\ cpc = "done"
    /\ earlier = <<>>
    /\ earlier' = <<[err |-> calcErr, result |-> result]>>
    /\ packSizes' \in Reorderings(packSizes)
    /\ cpc' = "start"
    /\ UNCHANGED <<items, normalized, dp, choice, sizeIdx, amount, remaining, result, calcErr>>

CalcNext ==
    \/ CalcEnter
    \/ Relax
    \/ NextSize
    \/ CheckChoice
    \/ Reconstruct
    \/ ReturnResult
    \/ CalcAgain


\* ------------------------------------------------------------------------
\* internal/storage: normalizePackSizes, cloneAndSort
\* ------------------------------------------------------------------------
defaultPackSizes == <<250, 500, 1000, 2000, 5000>>

\* Faulty variant of the loop: >= in place of > on the number of distinct sizes.
RECURSIVE storageUniqueLoopOffByOne(_, _, _)
storageUniqueLoopOffByOne(sizes, i, unique) ==
    IF i > Len(sizes) THEN [err |-> NoErr, unique |-> unique]
    ELSE IF sizes[i] <= 0 THEN [err |-> ErrInvalidPackSizes, unique |-> {}]
    ELSE LET u == unique \cup {sizes[i]}
         IN IF Cardinality(u) >= storageMaxPackSizes
            THEN [err |-> ErrInvalidPackSizes, unique |-> {}]
            ELSE storageUniqueLoopOffByOne(sizes, i + 1, u)

\* Faulty variant of storageUniqueLoop: a pack size of zero passes.
RECURSIVE storageUniqueLoopAcceptsZero(_, _, _)
storageUniqueLoopAcceptsZero(sizes, i, unique) ==
    IF i > Len(sizes) THEN [err |-> NoErr, unique |-> unique]
    ELSE IF sizes[i] < 0 THEN [err |-> ErrInvalidPackSizes, unique |-> {}]
    ELSE LET u == unique \cup {sizes[i]}
         IN IF Cardinality(u) > storageMaxPackSizes
            THEN [err |-> ErrInvalidPackSizes, unique |-> {}]
            ELSE storageUniqueLoopAcceptsZero(sizes, i + 1, u)

RECURSIVE storageUniqueLoop(_, _, _)
storageUniqueLoop(sizes, i, unique) ==
    IF i > Len(sizes) THEN [err |-> NoErr, unique |-> unique]
    ELSE IF sizes[i] <= 0 THEN [err |-> ErrInvalidPackSizes, unique |-> {}]
    ELSE LET u == unique \cup {sizes[i]}
         IN IF Cardinality(u) > storageMaxPackSizes
            THEN [err |-> ErrInvalidPackSizes, unique |-> {}]
            ELSE storageUniqueLoop(sizes, i + 1, u)

\* Faulty variant: the keys of the map are returned without sort.Ints (here in
\* the order of first occurrence, one of the orders a map iteration can give).
storageNormalizeNoSort(sizes) ==
    IF Len(sizes) = 0 THEN [err |-> ErrInvalidPackSizes, val |-> <<>>]
    ELSE LET r == storageUniqueLoop(sizes, 1, {})
         IN IF r.err # NoErr THEN [err |-> r.err, val |-> <<>>]
            ELSE [err |-> NoErr, val |-> FirstOccurrences(sizes)]

\* Faulty variant: the input is validated, then returned sorted with its
\* duplicates.
storageNormalizeKeepsDuplicates(sizes) ==
    IF Len(sizes) = 0 THEN [err |-> ErrInvalidPackSizes, val |-> <<>>]
    ELSE LET r == storageUniqueLoop(sizes, 1, {})
         IN IF r.err # NoErr THEN [err |-> r.err, val |-> <<>>]
            ELSE [err |-> NoErr, val |-> SortSlice(sizes)]

storageNormalizePackSizes(sizes) ==
    IF Len(sizes) = 0 THEN [err |-> ErrInvalidPackSizes, val |-> <<>>]
    ELSE LET r == storageUniqueLoop(sizes, 1, {})
         IN IF r.err # NoErr THEN [err |-> r.err, val |-> <<>>]
            ELSE [err |-> NoErr, val |-> SortInts(r.unique)]

\* The contents of the slice cloneAndSort returns.
cloneAndSort(src) == IF Len(src) = 0 THEN <<>> ELSE SortSlice(src)

\* ------------------------------------------------------------------------
\* internal/storage: MemoryStorage over a heap of backing arrays
\* ------------------------------------------------------------------------
\* A slice is a header [ptr, len]; ptr is the address of its backing array
\* (Nil for a nil or empty slice).  heap[a] is the backing array at address a.
\* Addresses are named after the allocation that makes the array: the array
\* NewMemoryStorage makes, and per goroutine the slice it passes, the snapshot
\* GetPackSizes makes for it and the arrays normalizePackSizes makes for it
\* (two, as the store may still hold the one of its previous call).
Nil == <<"nil", "nil">>
InitAddr == <<"new", "store">>
Addr == {InitAddr} \cup ({"arg", "ret", "norm1", "norm2"} \X Procs)

NilSlice == [ptr |-> Nil, len |-> 0]

\* The elements a slice header denotes in heap h.
ContentIn(h, sl) ==
    IF sl.ptr = Nil THEN <<>>
    ELSE SubSeq(h[sl.ptr], 1, IF sl.len <= Len(h[sl.ptr]) THEN sl.len ELSE Len(h[sl.ptr]))

Content(sl) == ContentIn(heap, sl)

\* The addresses some slice header refers to.
Live(st, ar, nm, hd, rt) ==
    ({st.ptr} \cup {ar[p].ptr : p \in Procs} \cup {nm[p].ptr : p \in Procs}
        \cup {hd[p].ptr : p \in Procs} \cup {rt[p].ptr : p \in Procs}) \ {Nil}

\* The garbage collector: an array no header refers to is gone.
Sweep(h, live) == [a \in Addr |-> IF a \in live THEN h[a] ELSE <<>>]

\* make([]int, ...) in normalizePackSizes: an address no header refers to.
NormAddr(p, live) == IF <<"norm1", p>> \notin live THEN <<"norm1", p>> ELSE <<"norm2", p>>

\* The slice header of a new array at a holding s.
MakeSlice(a, s) == IF Len(s) = 0 THEN NilSlice ELSE [ptr |-> a, len |-> Len(s)]

\* History variables (no code reads them).  lastCandidate is the slice passed
\* to the last SetPackSizes whose store completed (the default sizes at first);
\* Committed is the set it stands for: its distinct values in ascending order.
\* For a goroutine inside GetPackSizes, before is the committed set when the
\* call began, during the sets committed since, and seenPtr the arrays the
\* store pointed at since the call began.
NormalForm(c) == SortInts({c[i] : i \in 1..Len(c)})

Committed == NormalForm(lastCandidate)

\* NewMemoryStorage: packSizes is cloneAndSort(defaultPackSizes).
StoreInit ==
    /\ heap = [a \in Addr |-> IF a = InitAddr THEN cloneAndSort(defaultPackSizes) ELSE <<>>]
    /\ storePackSizes = [ptr |-> InitAddr, len |-> Len(defaultPackSizes)]
    /\ mu = [writer |-> None, readers |-> {}]
    /\ pc = [p \in Procs |-> "idle"]
    /\ arg = [p \in Procs |-> NilSlice]
    /\ norm = [p \in Procs |-> NilSlice]
    /\ hdr = [p \in Procs |-> NilSlice]
    /\ ret = [p \in Procs |-> NilSlice]
    /\ setErr = [p \in Procs |-> None]
    /\ lastCandidate = defaultPackSizes
    /\ before = [p \in Procs |-> <<>>]
    /\ during = [p \in Procs |-> {}]
    /\ seenPtr = [p \in Procs |-> {}]

\* A goroutine that is not inside a call of the store.
CallReady(p) == pc[p] \in {"idle", "g_ret", "s_ret"}

InGet(p) == pc[p] \in {"g_rlock", "g_loadptr", "g_loadlen", "g_clone", "g_runlock"}

\* --- GetPackSizes -----------------------------------------------------
\* The caller enters GetPackSizes; it lets go of the slices of its last call.
GetCall(p) ==
    /\ UNCHANGED <<calcVars, handlerVars, configVars>>
    /\ CallReady(p)
    /\ pc' = [pc EXCEPT ![p] = "g_rlock"]
    /\ LET ar == [arg EXCEPT ![p] = NilSlice]
           rt == [ret EXCEPT ![p] = NilSlice]
       IN /\ arg' = ar
          /\ ret' = rt
          /\ heap' = Sweep(heap, Live(storePackSizes, ar, norm, hdr, rt))
    /\ setErr' = [setErr EXCEPT ![p] = None]
    /\ before' = [before EXCEPT ![p] = Committed]
    /\ during' = [during EXCEPT ![p] = {}]
    /\ seenPtr' = [seenPtr EXCEPT ![p] = {storePackSizes.ptr}]
    /\ UNCHANGED <<storePackSizes, mu, norm, hdr, lastCandidate>>

\* s.mu.RLock()
\* Faulty variant of RLock: the reader does not wait for the writer.
RLockNoWait(p) ==
    /\ UNCHANGED <<calcVars, handlerVars, configVars>>
    /\ pc[p] = "g_rlock"
    /\ mu' = [mu EXCEPT !.readers = @ \cup {p}]
    /\ pc' = [pc EXCEPT ![p] = "g_loadptr"]
    /\ UNCHANGED <<heap, storePackSizes, arg, norm, hdr, ret, setErr, lastCandidate, before, during, seenPtr>>

RLock(p) ==
    /\ UNCHANGED <<calcVars, handlerVars, configVars>>
    /\ pc[p] = "g_rlock"
    /\ mu.writer = None
    /\ mu' = [mu EXCEPT !.readers = @ \cup {p}]
    /\ pc' = [pc EXCEPT ![p] = "g_loadptr"]
    /\ UNCHANGED <<heap, storePackSizes, arg, norm, hdr, ret, setErr, lastCandidate, before, during, seenPtr>>

\* The read of s.packSizes, one word of the slice header at a time.
GetLoadPtr(p) ==
    /\ UNCHANGED <<calcVars, handlerVars, configVars>>
    /\ pc[p] = "g_loadptr"
    /\ hdr' = [hdr EXCEPT ![p] = [ptr |-> storePackSizes.ptr, len |-> 0]]
    /\ pc' = [pc EXCEPT ![p] = "g_loadlen"]
    /\ UNCHANGED <<heap, storePackSizes, mu, arg, norm, ret, setErr, lastCandidate, before, during, seenPtr>>

GetLoadLen(p) ==
    /\ UNCHANGED <<calcVars, handlerVars, configVars>>
    /\ pc[p] = "g_loadlen"
    /\ hdr' = [hdr EXCEPT ![p].len = storePackSizes.len]
    /\ pc' = [pc EXCEPT ![p] = "g_clone"]
    /\ UNCHANGED <<heap, storePackSizes, mu, arg, norm, ret, setErr, lastCandidate, before, during, seenPtr>>

\* cloneAndSort(s.packSizes): a new array with the sorted elements.
\* Faulty variant of GetClone: the stored slice itself is returned.
GetCloneAlias(p) ==
    /\ UNCHANGED <<calcVars, handlerVars, configVars>>
    /\ pc[p] = "g_clone"
    /\ LET rt == [ret EXCEPT ![p] = hdr[p]]
           hd == [hdr EXCEPT ![p] = NilSlice]
       IN /\ ret' = rt
          /\ hdr' = hd
          /\ heap' = Sweep(heap, Live(storePackSizes, arg, norm, hd, rt))
    /\ pc' = [pc EXCEPT ![p] = "g_runlock"]
    /\ seenPtr' = [seenPtr EXCEPT ![p] = {}]
    /\ UNCHANGED <<storePackSizes, mu, arg, norm, setErr, lastCandidate, before, during>>

GetClone(p) ==
    /\ UNCHANGED <<calcVars, handlerVars, configVars>>
    /\ pc[p] = "g_clone"
    /\ LET out == cloneAndSort(Content(hdr[p]))
           a == <<"ret", p>>
           rt == [ret EXCEPT ![p] = MakeSlice(a, out)]
           hd == [hdr EXCEPT ![p] = NilSlice]
       IN /\ ret' = rt
          /\ hdr' = hd
          /\ heap' = Sweep([heap EXCEPT ![a] = out], Live(storePackSizes, arg, norm, hd, rt))
    /\ pc' = [pc EXCEPT ![p] = "g_runlock"]
    /\ seenPtr' = [seenPtr EXCEPT ![p] = {}]
    /\ UNCHANGED <<storePackSizes, mu, arg, norm, setErr, lastCandidate, before, during>>

\* Faulty variant of RUnlock: GetPackSizes returns with the read lock held.
RUnlockKeepsLock(p) ==
    /\ UNCHANGED <<calcVars, handlerVars, configVars>>
    /\ pc[p] = "g_runlock"
    /\ pc' = [pc EXCEPT ![p] = "g_ret"]
    /\ UNCHANGED <<heap, storePackSizes, mu, arg, norm, hdr, ret, setErr, lastCandidate, before, during, seenPtr>>

\* defer s.mu.RUnlock(), and the return to the caller.
RUnlock(p) ==
    /\ UNCHANGED <<calcVars, handlerVars, configVars>>
    /\ pc[p] = "g_runlock"
    /\ mu' = [mu EXCEPT !.readers = @ \ {p}]
    /\ pc' = [pc EXCEPT ![p] = "g_ret"]
    /\ UNCHANGED <<heap, storePackSizes, arg, norm, hdr, ret, setErr, lastCandidate, before, during, seenPtr>>

\* --- SetPackSizes -----------------------------------------------------
\* The caller enters SetPackSizes(sizes) with a slice of its own.
SetCall(p, c) ==
    /\ UNCHANGED <<calcVars, handlerVars, configVars>>
    /\ CallReady(p)
    /\ pc' = [pc EXCEPT ![p] = "s_norm"]
    /\ LET rt == [ret EXCEPT ![p] = NilSlice]
           a == <<"arg", p>>
           ar == [arg EXCEPT ![p] = MakeSlice(a, c)]
       IN /\ arg' = ar
          /\ ret' = rt
          /\ heap' = Sweep([heap EXCEPT ![a] = c], Live(storePackSizes, ar, norm, hdr, rt))
    /\ setErr' = [setErr EXCEPT ![p] = None]
    /\ before' = [before EXCEPT ![p] = <<>>]
    /\ during' = [during EXCEPT ![p] = {}]
    /\ UNCHANGED <<storePackSizes, mu, norm, hdr, lastCandidate, seenPtr>>

\* normalized, err := normalizePackSizes(sizes); if err != nil { return err }
\* Faulty variant of SetNormalize: the caller's array is normalized in place
\* and kept.
SetNormalizeInPlace(p) ==
    /\ UNCHANGED <<calcVars, handlerVars, configVars>>
    /\ pc[p] = "s_norm"
    /\ LET r == storageNormalizePackSizes(Content(arg[p]))
       IN IF r.err # NoErr
          THEN /\ setErr' = [setErr EXCEPT ![p] = r.err]
               /\ pc' = [pc EXCEPT ![p] = "s_ret"]
               /\ UNCHANGED <<heap, norm>>
          ELSE /\ norm' = [norm EXCEPT ![p] = [ptr |-> arg[p].ptr, len |-> Len(r.val)]]
               /\ heap' = [heap EXCEPT ![arg[p].ptr] = r.val]
               /\ pc' = [pc EXCEPT ![p] = "s_lock"]
               /\ UNCHANGED setErr
    /\ UNCHANGED <<storePackSizes, mu, arg, hdr, ret, lastCandidate, before, during, seenPtr>>

\* Faulty variant of SetNormalize: s.packSizes, err = normalizePackSizes(sizes),
\* so a failed validation stores the nil slice.
SetNormalizeAssignFirst(p) ==
    /\ UNCHANGED <<calcVars, handlerVars, configVars>>
    /\ pc[p] = "s_norm"
    /\ LET r == storageNormalizePackSizes(Content(arg[p]))
           a == NormAddr(p, Live(storePackSizes, arg, norm, hdr, ret))
       IN IF r.err # NoErr
          THEN /\ setErr' = [setErr EXCEPT ![p] = r.err]
               /\ pc' = [pc EXCEPT ![p] = "s_ret"]
               /\ storePackSizes' = NilSlice
               /\ heap' = Sweep(heap, Live(NilSlice, arg, norm, hdr, ret))
               /\ UNCHANGED norm
          ELSE /\ norm' = [norm EXCEPT ![p] = MakeSlice(a, r.val)]
               /\ heap' = [heap EXCEPT ![a] = r.val]
               /\ pc' = [pc EXCEPT ![p] = "s_lock"]
               /\ UNCHANGED <<setErr, storePackSizes>>
    /\ UNCHANGED <<mu, arg, hdr, ret, lastCandidate, before, during, seenPtr>>

SetNormalize(p) ==
    /\ UNCHANGED <<calcVars, handlerVars, configVars>>
    /\ pc[p] = "s_norm"
    /\ LET r == storageNormalizePackSizes(Content(arg[p]))
           a == NormAddr(p, Live(storePackSizes, arg, norm, hdr, ret))
       IN IF r.err # NoErr
          THEN /\ setErr' = [setErr EXCEPT ![p] = r.err]
               /\ pc' = [pc EXCEPT ![p] = "s_ret"]
               /\ UNCHANGED <<heap, norm>>
          ELSE /\ norm' = [norm EXCEPT ![p] = MakeSlice(a, r.val)]
               /\ heap' = [heap EXCEPT ![a] = r.val]
               /\ pc' = [pc EXCEPT ![p] = "s_lock"]
               /\ UNCHANGED setErr
    /\ UNCHANGED <<storePackSizes, mu, arg, hdr, ret, lastCandidate, before, during, seenPtr>>

\* s.mu.Lock()
Lock(p) ==
    /\ UNCHANGED <<calcVars, handlerVars, configVars>>
    /\ pc[p] = "s_lock"
    /\ mu.writer = None
    /\ mu.readers = {}
    /\ mu' = [mu EXCEPT !.writer = p]
    /\ pc' = [pc EXCEPT ![p] = "s_storeptr"]
    /\ UNCHANGED <<heap, storePackSizes, arg, norm, hdr, ret, setErr, lastCandidate, before, during, seenPtr>>

\* s.packSizes = normalized, one word of the slice header at a time.
\* Faulty variant of SetStorePtr: the assignment goes to a copy of the
\* receiver, the store's pointer stays.
SetStorePtrLost(p) ==
    /\ UNCHANGED <<calcVars, handlerVars, configVars>>
    /\ pc[p] = "s_storeptr"
    /\ pc' = [pc EXCEPT ![p] = "s_storelen"]
    /\ UNCHANGED <<heap, storePackSizes, mu, arg, norm, hdr, ret, setErr, lastCandidate, before, during, seenPtr>>

SetStorePtr(p) ==
    /\ UNCHANGED <<calcVars, handlerVars, configVars>>
    /\ pc[p] = "s_storeptr"
    /\ storePackSizes' = [storePackSizes EXCEPT !.ptr = norm[p].ptr]
    /\ seenPtr' = [q \in Procs |-> IF seenPtr[q] # {} THEN seenPtr[q] \cup {norm[p].ptr} ELSE {}]
    /\ pc' = [pc EXCEPT ![p] = "s_storelen"]
    /\ UNCHANGED <<heap, mu, arg, norm, hdr, ret, setErr, lastCandidate, before, during>>

SetStoreLen(p) ==
    /\ UNCHANGED <<calcVars, handlerVars, configVars>>
    /\ pc[p] = "s_storelen"
    /\ LET st == [storePackSizes EXCEPT !.len = norm[p].len]
           c == Content(arg[p])
       IN /\ storePackSizes' = st
          /\ lastCandidate' = c
          /\ during' = [q \in Procs |-> IF InGet(q) THEN during[q] \cup {NormalForm(c)} ELSE during[q]]
          /\ heap' = Sweep(heap, Live(st, arg, norm, hdr, ret))
    /\ pc' = [pc EXCEPT ![p] = "s_unlock"]
    /\ UNCHANGED <<mu, arg, norm, hdr, ret, setErr, before, seenPtr>>

\* s.mu.Unlock(); return nil
Unlock(p) ==
    /\ UNCHANGED <<calcVars, handlerVars, configVars>>
    /\ pc[p] = "s_unlock"
    /\ mu' = [mu EXCEPT !.writer = None]
    /\ norm' = [norm EXCEPT ![p] = NilSlice]
    /\ setErr' = [setErr EXCEPT ![p] = NoErr]
    /\ pc' = [pc EXCEPT ![p] = "s_ret"]
    /\ UNCHANGED <<heap, storePackSizes, arg, hdr, ret, lastCandidate, before, during, seenPtr>>

\* --- The callers' own writes ---------------------------------------------
\* The caller writes into the snapshot GetPackSizes returned (got[0] = 999).
TamperSnapshot(p) ==
    /\ UNCHANGED <<calcVars, handlerVars, configVars>>
    /\ pc[p] = "g_ret"
    /\ ret[p].ptr # Nil
    /\ heap' = [heap EXCEPT ![ret[p].ptr][1] = TamperValue]
    /\ pc' = [pc EXCEPT ![p] = "idle"]
    /\ before' = [before EXCEPT ![p] = <<>>]
    /\ during' = [during EXCEPT ![p] = {}]
    /\ UNCHANGED <<storePackSizes, mu, arg, norm, hdr, ret, setErr, lastCandidate, seenPtr>>

\* The caller writes into the slice it passed, after SetPackSizes returned.
TamperArgument(p) ==
    /\ UNCHANGED <<calcVars, handlerVars, configVars>>
    /\ pc[p] = "s_ret"
    /\ arg[p].ptr # Nil
    /\ heap' = [heap EXCEPT ![arg[p].ptr][1] = TamperValue]
    /\ pc' = [pc EXCEPT ![p] = "idle"]
    /\ UNCHANGED <<storePackSizes, mu, arg, norm, hdr, ret, setErr, lastCandidate, before, during, seenPtr>>

\* ------------------------------------------------------------------------
\* internal/api: Handler (handleCalculate, handlePutPackSizes,
\* handleGetPackSizes) over the store and the engine.
\*
\* A goroutine serves one request at a time. The calls into the store are
\* single steps here: the store's mutex makes each of them atomic to the
\* other goroutines (NoTornReads, StoreLinearizable). CalculatePacks runs as
\* the stepped engine above, on the snapshot the handler passed to it, so the
\* other goroutine's requests interleave with its loops; one calculate
\* request is in the engine at a time.
\* ------------------------------------------------------------------------
MaxClock == 2

StatusOK == 200
StatusBadRequest == 400
StatusUnprocessableEntity == 422
StatusInternalServerError == 500

\* Error(): the text of an error value.
ErrorText(e) ==
    IF e = ErrInvalidItems THEN "items must be a non-negative integer"
    ELSE IF e = ErrInvalidPackSizes THEN "pack sizes must contain between 1 and 10 positive integers"
    ELSE IF e = ErrCannotFulfill THEN "cannot pack items exactly with the provided pack sizes"
    ELSE ""

\* The item counts and the pack sizes that request bodies carry.
RequestItems == {0 - 1, 0, 2, 7}
RequestPackSizes == {<<>>, <<0>>, <<3, 5>>, <<2, 1, 2>>, TooManyDistinct}

\* A request: its route and its JSON body (well formed or not; with or
\* without the packSizes field).
NoRequest ==
    [kind |-> "none", wellFormed |-> TRUE, items |-> 0, hasPackSizes |-> FALSE, packSizes |-> <<>>]

CalculateBodies ==
    {[NoRequest EXCEPT !.kind = "calculate", !.wellFormed = FALSE]}
        \cup {[NoRequest EXCEPT !.kind = "calculate", !.items = n] : n \in RequestItems}

PutBodies ==
    {[NoRequest EXCEPT !.kind = "put", !.wellFormed = FALSE], [NoRequest EXCEPT !.kind = "put"]}
        \cup {[NoRequest EXCEPT !.kind = "put", !.hasPackSizes = TRUE, !.packSizes = c] :
                c \in RequestPackSizes}

GetRequestBody == [NoRequest EXCEPT !.kind = "get"]

\* json.Decode into calculateRequest / packSizesRequest: a field that is
\* missing keeps its zero value.
DecodeItems(body) == body.items
DecodePackSizes(body) == IF body.hasPackSizes THEN body.packSizes ELSE <<>>

\* A response: the status and the fields of errorResponse,
\* calculateResponse and packSizesResponse.
NoResponse ==
    [status |-> 0, error |-> "", details |-> "", suggestion |-> "",
     items |-> 0, packs |-> <<>>, totalPacks |-> 0, totalItems |-> 0, remainder |-> 0,
     packSizes |-> <<>>, updatedAt |-> 0, message |-> ""]

\* Faulty variant of writeError: the suggestion is taken only when a second
\* one follows it.
writeErrorDropsSuggestion(status, message, details, suggestion) ==
    [NoResponse EXCEPT !.status = status, !.error = message, !.details = details,
                       !.suggestion = IF Len(suggestion) > 1 THEN suggestion[1] ELSE ""]

\* writeError(w, status, message, details, suggestion...)
writeError(status, message, details, suggestion) ==
    [NoResponse EXCEPT !.status = status, !.error = message, !.details = details,
                       !.suggestion = IF Len(suggestion) > 0 THEN suggestion[1] ELSE ""]

\* strconv.Itoa
Itoa(n) == ToString(n)

\* Lines 157-181: the loop over the sorted sizes of the result, and the
\* response built from it.
MapPut(m, k, v) == [x \in DOMAIN m \cup {k} |-> IF x = k THEN v ELSE m[x]]

\* Faulty variant of packsLoop: totalPacks counts the sizes used, not the
\* packs.
RECURSIVE packsLoopCountsSizes(_, _, _, _)
packsLoopCountsSizes(res, sizes, i, acc) ==
    IF i > Len(sizes) THEN acc
    ELSE LET size == sizes[i]
             count == res[size]
         IN packsLoopCountsSizes(res, sizes, i + 1,
                [packs |-> MapPut(acc.packs, Itoa(size), count),
                 totalItems |-> acc.totalItems + size * count,
                 totalPacks |-> acc.totalPacks + 1])

RECURSIVE packsLoop(_, _, _, _)
packsLoop(res, sizes, i, acc) ==
    IF i > Len(sizes) THEN acc
    ELSE LET size == sizes[i]
             count == res[size]
         IN packsLoop(res, sizes, i + 1,
                [packs |-> MapPut(acc.packs, Itoa(size), count),
                 totalItems |-> acc.totalItems + size * count,
                 totalPacks |-> acc.totalPacks + count])

calculateResponse(n, res) ==
    LET t == packsLoop(res, SortInts(DOMAIN res), 1,
                       [packs |-> <<>>, totalItems |-> 0, totalPacks |-> 0])
    IN [NoResponse EXCEPT !.status = StatusOK, !.items = n, !.packs = t.packs,
                          !.totalPacks = t.totalPacks, !.totalItems = t.totalItems,
                          !.remainder = n - t.totalItems]

\* packSizesResponse
packSizesResponse(sizes, updatedAt, message) ==
    [NoResponse EXCEPT !.status = StatusOK, !.packSizes = sizes,
                       !.updatedAt = updatedAt, !.message = message]

\* MemoryStorage.GetPackSizes as one step: the sorted copy of the stored
\* slice.
storageGetPackSizes == cloneAndSort(Content(storePackSizes))

\* MemoryStorage.SetPackSizes(sizes) as one step, for sizes that passed the
\* normalization to n: the new slice replaces the stored one.
storageCommit(p, sizes, n) ==
    LET a == <<"norm1", p>>
    IN /\ heap' = Sweep([heap EXCEPT ![a] = n], {a})
       /\ storePackSizes' = MakeSlice(a, n)
       /\ lastCandidate' = sizes
       /\ UNCHANGED <<mu, pc, arg, norm, hdr, ret, setErr, before, during, seenPtr>>

\* The update that installed a stored set, for the properties: the goroutine
\* whose SetPackSizes stored it ("init" for NewMemoryStorage), whether the
\* time of that update has been recorded yet, and the time recorded.
AtCreation == [by |-> "init", marked |-> TRUE, at |-> 0]

NoOrigin == [by |-> "none", marked |-> FALSE, at |-> 0]

\* markPackSizesUpdated by goroutine p records t for the update p has made.
Marked(u, p, t) ==
    IF u.by = p /\ ~u.marked THEN [u EXCEPT !.marked = TRUE, !.at = t] ELSE u

HandlerInit ==
    /\ hpc = [p \in Procs |-> "idle"]
    /\ req = [p \in Procs |-> NoRequest]
    /\ resp = [p \in Procs |-> NoResponse]
    /\ snap = [p \in Procs |-> <<>>]
    /\ touched = [p \in Procs |-> {}]
    /\ seen = [p \in Procs |-> {}]
    /\ packSizesUpdatedAt = 0
    /\ now = 0
    /\ installed = AtCreation
    /\ origin = [p \in Procs |-> NoOrigin]

\* A request is received by a goroutine that serves none.
Receive(p, body) ==
    /\ hpc[p] = "idle"
    /\ req' = [req EXCEPT ![p] = body]

\* The response is written and the handler returns.
Respond(p, r) ==
    /\ resp' = [resp EXCEPT ![p] = r]
    /\ hpc' = [hpc EXCEPT ![p] = "idle"]

InCalculate(p) == hpc[p] \in {"c_get", "c_calc"}

\* --- handleCalculate ----------------------------------------------------
\* Faulty variant of CalculateRequest: only a negative item count is
\* rejected.
CalculateRequestAcceptsZero(p, body) ==
    /\ UNCHANGED <<configVars, installed, origin>>
    /\ Receive(p, body)
    /\ \A q \in Procs : ~InCalculate(q)
    /\ snap' = [snap EXCEPT ![p] = <<>>]
    /\ touched' = [touched EXCEPT ![p] = {}]
    /\ IF ~body.wellFormed THEN
            /\ Respond(p, writeError(StatusBadRequest, "Invalid request",
                                     "unable to parse JSON payload", <<>>))
            /\ seen' = [seen EXCEPT ![p] = {}]
       ELSE IF DecodeItems(body) < 0 THEN
            /\ Respond(p, writeError(StatusBadRequest, "Invalid request",
                                     "items must be a positive integer", <<>>))
            /\ seen' = [seen EXCEPT ![p] = {}]
       ELSE /\ hpc' = [hpc EXCEPT ![p] = "c_get"]
            /\ resp' = [resp EXCEPT ![p] = NoResponse]
            /\ seen' = [seen EXCEPT ![p] = {storageGetPackSizes}]
    /\ UNCHANGED <<calcVars, storeVars, packSizesUpdatedAt, now>>

\* Lines 121-130: the body is decoded and the item count checked.
CalculateRequest(p, body) ==
    /\ UNCHANGED <<configVars, installed, origin>>
    /\ Receive(p, body)
    /\ \A q \in Procs : ~InCalculate(q)
    /\ snap' = [snap EXCEPT ![p] = <<>>]
    /\ touched' = [touched EXCEPT ![p] = {}]
    /\ IF ~body.wellFormed THEN
            /\ Respond(p, writeError(StatusBadRequest, "Invalid request",
                                     "unable to parse JSON payload", <<>>))
            /\ seen' = [seen EXCEPT ![p] = {}]
       ELSE IF DecodeItems(body) <= 0 THEN
            /\ Respond(p, writeError(StatusBadRequest, "Invalid request",
                                     "items must be a positive integer", <<>>))
            /\ seen' = [seen EXCEPT ![p] = {}]
       ELSE /\ hpc' = [hpc EXCEPT ![p] = "c_get"]
            /\ resp' = [resp EXCEPT ![p] = NoResponse]
            /\ seen' = [seen EXCEPT ![p] = {storageGetPackSizes}]
    /\ UNCHANGED <<calcVars, storeVars, packSizesUpdatedAt, now>>

\* Faulty variant of CalculateReadStore: the engine gets the pack sizes the
\* service started with, not the stored ones.
CalculateReadsDefaults(p) ==
    /\ UNCHANGED <<configVars, installed, origin>>
    /\ hpc[p] = "c_get"
    /\ snap' = [snap EXCEPT ![p] = defaultPackSizes]
    /\ touched' = [touched EXCEPT ![p] = {"store", "calculator"}]
    /\ hpc' = [hpc EXCEPT ![p] = "c_calc"]
    /\ items' = DecodeItems(req[p])
    /\ packSizes' = defaultPackSizes
    /\ cpc' = "start"
    /\ UNCHANGED <<normalized, dp, choice, sizeIdx, amount, remaining, result, calcErr, earlier>>
    /\ UNCHANGED <<storeVars, req, resp, seen, packSizesUpdatedAt, now>>

\* Lines 132-139: GetPackSizes, then CalculatePacks is entered with the item
\* count of the request and the slice that GetPackSizes returned.
CalculateReadStore(p) ==
    /\ UNCHANGED <<configVars, installed, origin>>
    /\ hpc[p] = "c_get"
    /\ snap' = [snap EXCEPT ![p] = storageGetPackSizes]
    /\ touched' = [touched EXCEPT ![p] = {"store", "calculator"}]
    /\ hpc' = [hpc EXCEPT ![p] = "c_calc"]
    /\ items' = DecodeItems(req[p])
    /\ packSizes' = storageGetPackSizes
    /\ cpc' = "start"
    /\ UNCHANGED <<normalized, dp, choice, sizeIdx, amount, remaining, result, calcErr, earlier>>
    /\ UNCHANGED <<storeVars, req, resp, seen, packSizesUpdatedAt, now>>

\* Lines 142-155: the response for an error of the engine.
calculateErrorResponse(e, n) ==
    IF e = ErrInvalidItems THEN
        writeError(StatusBadRequest, "Invalid request", ErrorText(e), <<>>)
    ELSE IF e = ErrCannotFulfill THEN
        writeError(StatusUnprocessableEntity, "Cannot pack exactly", ErrorText(e),
                   <<"Consider adding a pack size that divides " \o Itoa(n)
                        \o " or adjust the order quantity">>)
    ELSE IF e = ErrInvalidPackSizes THEN
        writeError(StatusInternalServerError, "Internal error", ErrorText(e), <<>>)
    ELSE writeError(StatusInternalServerError, "Internal error", ErrorText(e), <<>>)

\* Lines 139-182: CalculatePacks has returned; the response is written and
\* the call's locals are gone.
CalculateRespond(p) ==
    /\ UNCHANGED <<configVars, installed, origin>>
    /\ hpc[p] = "c_calc"
    /\ cpc = "done"
    /\ Respond(p, IF calcErr # NoErr
                  THEN calculateErrorResponse(calcErr, DecodeItems(req[p]))
                  ELSE calculateResponse(DecodeItems(req[p]), result))
    /\ items' = 0 /\ packSizes' = <<>> /\ normalized' = <<>> /\ dp' = <<>>
    /\ choice' = <<>> /\ sizeIdx' = 0 /\ amount' = 0 /\ remaining' = 0
    /\ result' = EmptyMap /\ calcErr' = NoErr /\ cpc' = "idle"
    /\ UNCHANGED <<earlier, storeVars, req, snap, touched, seen, packSizesUpdatedAt, now>>

\* --- handlePutPackSizes ---------------------------------------------------
\* Lines 84-93: the body is decoded and an absent or empty list refused.
PutRequest(p, body) ==
    /\ UNCHANGED <<configVars, installed, origin>>
    /\ Receive(p, body)
    /\ snap' = [snap EXCEPT ![p] = <<>>]
    /\ touched' = [touched EXCEPT ![p] = {}]
    /\ seen' = [seen EXCEPT ![p] = {}]
    /\ IF ~body.wellFormed THEN
            Respond(p, writeError(StatusBadRequest, "Invalid request",
                                  "unable to parse JSON payload", <<>>))
       ELSE IF Len(DecodePackSizes(body)) = 0 THEN
            Respond(p, writeError(StatusBadRequest, "Invalid pack sizes",
                                  "packSizes must contain at least one size", <<>>))
       ELSE /\ hpc' = [hpc EXCEPT ![p] = "p_set"]
            /\ resp' = [resp EXCEPT ![p] = NoResponse]
    /\ UNCHANGED <<calcVars, storeVars, packSizesUpdatedAt, now>>

\* h.clock(): a time that is not before the last one read.
ClockRead(t) == t \in now..MaxClock /\ now' = t

\* Faulty variant of PutSetPackSizes: the update time is taken before the
\* store has accepted the sizes.
PutMarksBeforeSet(p) ==
    /\ UNCHANGED configVars
    /\ hpc[p] = "p_set"
    /\ touched' = [touched EXCEPT ![p] = {"store"}]
    /\ \E t \in 0..MaxClock :
        /\ ClockRead(t) /\ packSizesUpdatedAt' = t
        /\ installed' = IF storageNormalizePackSizes(DecodePackSizes(req[p])).err # NoErr
                        THEN installed ELSE [by |-> p, marked |-> TRUE, at |-> t]
    /\ LET sizes == DecodePackSizes(req[p])
           n == storageNormalizePackSizes(sizes)
       IN IF n.err # NoErr THEN
               /\ Respond(p, writeError(StatusBadRequest, "Invalid pack sizes",
                                        ErrorText(n.err), <<>>))
               /\ UNCHANGED <<storeVars, seen>>
          ELSE /\ storageCommit(p, sizes, n.val)
               /\ seen' = [q \in Procs |-> IF InCalculate(q) THEN seen[q] \cup {n.val} ELSE seen[q]]
               /\ hpc' = [hpc EXCEPT ![p] = "p_get"]
               /\ UNCHANGED resp
    /\ UNCHANGED <<calcVars, req, snap>>
    /\ UNCHANGED origin

\* Lines 95-102: SetPackSizes; its error is answered with 400.
PutSetPackSizes(p) ==
    /\ UNCHANGED configVars
    /\ hpc[p] = "p_set"
    /\ touched' = [touched EXCEPT ![p] = {"store"}]
    /\ LET sizes == DecodePackSizes(req[p])
           n == storageNormalizePackSizes(sizes)
       IN IF n.err # NoErr THEN
               /\ Respond(p, writeError(StatusBadRequest, "Invalid pack sizes",
                                        ErrorText(n.err), <<>>))
               /\ UNCHANGED <<storeVars, seen, installed>>
          ELSE /\ storageCommit(p, sizes, n.val)
               /\ seen' = [q \in Procs |-> IF InCalculate(q) THEN seen[q] \cup {n.val} ELSE seen[q]]
               /\ hpc' = [hpc EXCEPT ![p] = "p_mark"]
               /\ UNCHANGED resp
               /\ installed' = [by |-> p, marked |-> FALSE, at |-> 0]
    /\ UNCHANGED <<calcVars, req, snap, packSizesUpdatedAt, now>>
    /\ UNCHANGED origin

\* Line 104 and lines 190-194: markPackSizesUpdated.
PutMark(p) ==
    /\ UNCHANGED configVars
    /\ hpc[p] = "p_mark"
    /\ \E t \in 0..MaxClock :
        /\ ClockRead(t) /\ packSizesUpdatedAt' = t
        /\ installed' = Marked(installed, p, t)
        /\ origin' = [q \in Procs |-> Marked(origin[q], p, t)]
    /\ hpc' = [hpc EXCEPT ![p] = "p_get"]
    /\ UNCHANGED <<calcVars, storeVars, req, resp, snap, touched, seen>>

\* Lines 106-110: GetPackSizes.
PutReadStore(p) ==
    /\ UNCHANGED configVars
    /\ hpc[p] = "p_get"
    /\ snap' = [snap EXCEPT ![p] = storageGetPackSizes]
    /\ hpc' = [hpc EXCEPT ![p] = "p_ts"]
    /\ UNCHANGED <<calcVars, storeVars, req, resp, touched, seen, packSizesUpdatedAt, now>>
    /\ origin' = [origin EXCEPT ![p] = installed]
    /\ UNCHANGED installed

\* Lines 112-117: currentPackSizesUpdatedAt and the response.
PutRespond(p) ==
    /\ UNCHANGED configVars
    /\ hpc[p] = "p_ts"
    /\ Respond(p, packSizesResponse(snap[p], packSizesUpdatedAt,
                                    "Pack sizes updated successfully"))
    /\ UNCHANGED <<calcVars, storeVars, req, snap, touched, seen, packSizesUpdatedAt, now>>
    /\ origin' = [origin EXCEPT ![p] = NoOrigin]
    /\ UNCHANGED installed

\* --- handleGetPackSizes ---------------------------------------------------
\* Lines 70-74: GetPackSizes.
GetRequest(p) ==
    /\ UNCHANGED configVars
    /\ Receive(p, GetRequestBody)
    /\ snap' = [snap EXCEPT ![p] = storageGetPackSizes]
    /\ touched' = [touched EXCEPT ![p] = {"store"}]
    /\ seen' = [seen EXCEPT ![p] = {}]
    /\ hpc' = [hpc EXCEPT ![p] = "g_ts"]
    /\ resp' = [resp EXCEPT ![p] = NoResponse]
    /\ UNCHANGED <<calcVars, storeVars, packSizesUpdatedAt, now>>
    /\ origin' = [origin EXCEPT ![p] = installed]
    /\ UNCHANGED installed

\* Lines 76-80: currentPackSizesUpdatedAt and the response.
GetRespond(p) ==
    /\ UNCHANGED configVars
    /\ hpc[p] = "g_ts"
    /\ Respond(p, packSizesResponse(snap[p], packSizesUpdatedAt, ""))
    /\ UNCHANGED <<calcVars, storeVars, req, snap, touched, seen, packSizesUpdatedAt, now>>
    /\ origin' = [origin EXCEPT ![p] = NoOrigin]
    /\ UNCHANGED installed

\* The engine's steps of the calculate request in progress.
EngineStep ==
    \/ CalcEnter
    \/ Relax
    \/ NextSize
    \/ CheckChoice
    \/ Reconstruct
    \/ ReturnResult

HandlerNext ==
    \/ EngineStep
    \/ \E p \in Procs :
        \/ \E body \in CalculateBodies : CalculateRequest(p, body)
        \/ CalculateReadStore(p)
        \/ CalculateRespond(p)
        \/ \E body \in PutBodies : PutRequest(p, body)
        \/ PutSetPackSizes(p)
        \/ PutMark(p)
        \/ PutReadStore(p)
        \/ PutRespond(p)
        \/ GetRequest(p)
        \/ GetRespond(p)

\* ------------------------------------------------------------------------
\* internal/config: Load and the sources it reads (YAML file, environment,
\* command-line flags), one step per source.
\*
\* A field of the YAML file, and a flag, is given or not; a field that is
\* not given is decoded to the zero value of its type. An environment
\* variable that is not set reads as the empty string. Numbers in text
\* (PACK_SIZES, RATE_LIMIT_RPS, RATE_LIMIT_BURST, --pack-sizes) are sequences
\* of tokens: an integer, something that is no integer, or a blank.
\* ------------------------------------------------------------------------
defaultPort == "8080"
defaultRateLimitRPS == 25
defaultRateLimitBurst == 50

Given(v) == [set |-> TRUE, val |-> v]
Absent(zero) == [set |-> FALSE, val |-> zero]

IntToken(n) == [kind |-> "int", value |-> n]
JunkToken == [kind |-> "junk", value |-> 0]
BlankToken == [kind |-> "blank", value |-> 0]

\* strconv.Atoi / strconv.ParseFloat on a token
Atoi(tok) == [err |-> tok.kind # "int", value |-> IF tok.kind = "int" THEN tok.value ELSE 0]

\* Lines 235-256: parsePackSizes over the parts of the string.
RECURSIVE parsePackSizesLoop(_, _, _)
parsePackSizesLoop(parts, i, sizes) ==
    IF i > Len(parts) THEN [err |-> Len(sizes) = 0, sizes |-> sizes]
    ELSE IF parts[i].kind = "blank" THEN parsePackSizesLoop(parts, i + 1, sizes)
    ELSE LET a == Atoi(parts[i])
         IN IF a.err \/ a.value <= 0 THEN [err |-> TRUE, sizes |-> <<>>]
            ELSE parsePackSizesLoop(parts, i + 1, Append(sizes, a.value))

parsePackSizes(raw) == parsePackSizesLoop(raw, 1, <<>>)

\* Lines 93-106 (the settings the sources can give).
defaultConfig ==
    [Port |-> defaultPort, InitialPackSizes |-> defaultPackSizes,
     EnableRequestLogging |-> TRUE,
     RateLimitRPS |-> defaultRateLimitRPS, RateLimitBurst |-> defaultRateLimitBurst]

ZeroConfig ==
    [Port |-> "", InitialPackSizes |-> <<>>, EnableRequestLogging |-> FALSE,
     RateLimitRPS |-> 0, RateLimitBurst |-> 0]

\* The YAML files: none named, one that cannot be read or parsed, and the
\* files that give or omit each field.
YAMLFiles ==
    {[status |-> "none", port |-> Absent(""), pack_sizes |-> Absent(<<>>),
      enable_request_logging |-> Absent(FALSE), rps |-> Absent(0), burst |-> Absent(0)],
     [status |-> "unreadable", port |-> Absent(""), pack_sizes |-> Absent(<<>>),
      enable_request_logging |-> Absent(FALSE), rps |-> Absent(0), burst |-> Absent(0)]}
    \cup [status : {"ok"},
          port : {Absent(""), Given("9090")},
          pack_sizes : {Absent(<<>>), Given(<<100, 200, 300>>)},
          enable_request_logging : {Absent(FALSE), Given(FALSE), Given(TRUE)},
          rps : {Absent(0), Given(50)},
          burst : {Absent(0), Given(100)}]

\* yaml.Unmarshal into yamlConfig: a field that the file omits keeps the
\* zero value.
Unmarshal(f) ==
    [Port |-> f.port.val, PackSizes |-> f.pack_sizes.val,
     EnableRequestLogging |-> f.enable_request_logging.val,
     RateLimit |-> [RPS |-> f.rps.val, Burst |-> f.burst.val]]

\* os.Getenv for PORT, PACK_SIZES, RATE_LIMIT_RPS, RATE_LIMIT_BURST.
Environments ==
    [PORT : {"", "7000"},
     PACK_SIZES : {<<>>, <<IntToken(5), BlankToken, IntToken(10)>>, <<JunkToken>>},
     RATE_LIMIT_RPS : {<<>>, <<IntToken(10)>>},
     RATE_LIMIT_BURST : {<<>>, <<IntToken(20)>>}]

\* CLIOverrides: a flag is a nil pointer when it was not passed.
Overrides ==
    [Port : {Absent(""), Given("8081")},
     PackSizesStr : {Absent(<<>>), Given(<<IntToken(7), IntToken(13)>>), Given(<<IntToken(0)>>)},
     RateLimitRPS : {Absent(0), Given(5)},
     RateLimitBurst : {Absent(0), Given(0 - 1)}]

ConfigIdle ==
    /\ overrides = [Port |-> Absent(""), PackSizesStr |-> Absent(<<>>),
                    RateLimitRPS |-> Absent(0), RateLimitBurst |-> Absent(0)]
    /\ environ = [PORT |-> "", PACK_SIZES |-> <<>>, RATE_LIMIT_RPS |-> <<>>,
                  RATE_LIMIT_BURST |-> <<>>]
    /\ file = [status |-> "none", port |-> Absent(""), pack_sizes |-> Absent(<<>>),
               enable_request_logging |-> Absent(FALSE), rps |-> Absent(0), burst |-> Absent(0)]
    /\ cfg = ZeroConfig
    /\ loadErr = FALSE
    /\ lpc = "idle"

\* Line 64: Load is entered; cfg := defaultConfig().
ConfigInit ==
    /\ overrides \in Overrides
    /\ environ \in Environments
    /\ file \in YAMLFiles
    /\ cfg = defaultConfig
    /\ loadErr = FALSE
    /\ lpc = "yaml"

LoadFail ==
    /\ cfg' = ZeroConfig
    /\ loadErr' = TRUE
    /\ lpc' = "done"

\* Lines 123-166 (the duration fields are left out).
applyYAMLConfig(c, yamlCfg) ==
    LET c1 == IF yamlCfg.Port # "" THEN [c EXCEPT !.Port = yamlCfg.Port] ELSE c
        c2 == IF Len(yamlCfg.PackSizes) > 0
              THEN [c1 EXCEPT !.InitialPackSizes = yamlCfg.PackSizes] ELSE c1
        c3 == [c2 EXCEPT !.EnableRequestLogging = yamlCfg.EnableRequestLogging]
        c4 == IF yamlCfg.RateLimit.RPS >= 0
              THEN [c3 EXCEPT !.RateLimitRPS = yamlCfg.RateLimit.RPS] ELSE c3
    IN IF yamlCfg.RateLimit.Burst >= 0
       THEN [c4 EXCEPT !.RateLimitBurst = yamlCfg.RateLimit.Burst] ELSE c4

\* A number read from a variable that holds one token.
ParseNumber(raw) == IF Len(raw) = 1 THEN Atoi(raw[1]) ELSE [err |-> TRUE, value |-> 0]

\* Lines 169-192.
applyEnvConfig(c, e) ==
    LET c1 == IF e.PORT # "" THEN [c EXCEPT !.Port = e.PORT] ELSE c
        parsed == parsePackSizes(e.PACK_SIZES)
        c2 == IF Len(e.PACK_SIZES) # 0 /\ ~parsed.err /\ Len(parsed.sizes) > 0
              THEN [c1 EXCEPT !.InitialPackSizes = parsed.sizes] ELSE c1
        rps == ParseNumber(e.RATE_LIMIT_RPS)
        c3 == IF Len(e.RATE_LIMIT_RPS) # 0 /\ ~rps.err /\ rps.value >= 0
              THEN [c2 EXCEPT !.RateLimitRPS = rps.value] ELSE c2
        burst == ParseNumber(e.RATE_LIMIT_BURST)
    IN IF Len(e.RATE_LIMIT_BURST) # 0 /\ ~burst.err /\ burst.value >= 0
       THEN [c3 EXCEPT !.RateLimitBurst = burst.value] ELSE c3

\* Lines 195-217.
applyCLIOverrides(c, o) ==
    LET c1 == IF o.Port.set /\ o.Port.val # "" THEN [c EXCEPT !.Port = o.Port.val] ELSE c
        given == o.PackSizesStr.set /\ Len(o.PackSizesStr.val) # 0
        parsed == parsePackSizes(o.PackSizesStr.val)
        c2 == IF given /\ ~parsed.err THEN [c1 EXCEPT !.InitialPackSizes = parsed.sizes] ELSE c1
        c3 == IF o.RateLimitRPS.set /\ o.RateLimitRPS.val >= 0
              THEN [c2 EXCEPT !.RateLimitRPS = o.RateLimitRPS.val] ELSE c2
        c4 == IF o.RateLimitBurst.set /\ o.RateLimitBurst.val >= 0
              THEN [c3 EXCEPT !.RateLimitBurst = o.RateLimitBurst.val] ELSE c3
    IN [err |-> given /\ parsed.err, cfg |-> c4]

\* Lines 220-231: TRUE when the configuration is refused.
validateConfig(c) ==
    \/ c.RateLimitRPS < 0
    \/ c.RateLimitBurst < 0
    \/ Len(c.InitialPackSizes) = 0

\* Lines 66-73.
LoadYAML ==
    /\ UNCHANGED <<calcVars, storeVars, handlerVars>>
    /\ lpc = "yaml"
    /\ IF file.status = "none" THEN
            /\ lpc' = "env"
            /\ UNCHANGED <<cfg, loadErr>>
       ELSE IF file.status # "ok" THEN LoadFail
       ELSE /\ cfg' = applyYAMLConfig(cfg, Unmarshal(file))
            /\ lpc' = "env"
            /\ UNCHANGED loadErr
    /\ UNCHANGED <<overrides, environ, file>>

\* Lines 75-76.
LoadEnv ==
    /\ UNCHANGED <<calcVars, storeVars, handlerVars>>
    /\ lpc = "env"
    /\ cfg' = applyEnvConfig(cfg, environ)
    /\ lpc' = "cli"
    /\ UNCHANGED <<overrides, environ, file, loadErr>>

\* Lines 78-83.
LoadCLI ==
    /\ UNCHANGED <<calcVars, storeVars, handlerVars>>
    /\ lpc = "cli"
    /\ LET r == applyCLIOverrides(cfg, overrides)
       IN IF r.err THEN LoadFail
          ELSE /\ cfg' = r.cfg
               /\ lpc' = "validate"
               /\ UNCHANGED loadErr
    /\ UNCHANGED <<overrides, environ, file>>

\* Lines 85-90.
LoadValidate ==
    /\ UNCHANGED <<calcVars, storeVars, handlerVars>>
    /\ lpc = "validate"
    /\ IF validateConfig(cfg) THEN LoadFail
       ELSE /\ lpc' = "done"
            /\ UNCHANGED <<cfg, loadErr>>
    /\ UNCHANGED <<overrides, environ, file>>

ConfigNext ==
    \/ LoadYAML
    \/ LoadEnv
    \/ LoadCLI
    \/ LoadValidate

Next ==
    \E p \in Procs :
        \/ GetCall(p)
        \/ RLock(p)
        \/ GetLoadPtr(p)
        \/ GetLoadLen(p)
        \/ GetClone(p)
        \/ RUnlock(p)
        \/ \E c \in StoreCandidates : SetCall(p, c)
        \/ SetNormalize(p)
        \/ Lock(p)
        \/ SetStorePtr(p)
        \/ SetStoreLen(p)
        \/ Unlock(p)
        \/ TamperSnapshot(p)
        \/ TamperArgument(p)

Init == StoreInit /\ CalcIdle /\ HandlerInit /\ ConfigIdle

Spec == Init /\ [][Next]_vars

\* The steps of goroutine p inside a call of the store that wait for nothing:
\* the goroutine is runnable, and Go's scheduler runs it.
RunStep(p) ==
    \/ GetLoadPtr(p) \/ GetLoadLen(p) \/ GetClone(p) \/ RUnlock(p)
    \/ SetNormalize(p) \/ SetStorePtr(p) \/ SetStoreLen(p) \/ Unlock(p)

\* The slices passed to SetPackSizes in the runs that are checked for
\* progress: one that fails validation and one that is stored.
FairCandidates == {<<>>, <<1>>}

\* The calls of the store alone, callers that leave the slices alone.
FairNext ==
    \E p \in Procs :
        \/ GetCall(p)
        \/ RLock(p)
        \/ RunStep(p)
        \/ \E c \in FairCandidates : SetCall(p, c)
        \/ Lock(p)

\* The store under a fair scheduler. sync.RWMutex hands the lock to a waiting
\* goroutine: a pending Lock keeps new readers out until the writer has had
\* the lock, and Unlock lets the waiting readers in before the next writer, so
\* a goroutine that waits while the lock is free again and again gets it.
SpecFair ==
    /\ Init /\ [][FairNext]_vars
    /\ \A p \in Procs :
            /\ WF_vars(RunStep(p))
            /\ SF_vars(RLock(p))
            /\ SF_vars(Lock(p))

\* The service after NewMemoryStorage and NewHandler, serving requests.
SpecHandler == Init /\ [][HandlerNext]_vars

InitCalc == StoreInit /\ CalcInit /\ HandlerInit /\ ConfigIdle

\* One call of config.Load, on every combination of the sources.
InitConfig == StoreInit /\ CalcIdle /\ HandlerInit /\ ConfigInit

SpecConfig == InitConfig /\ [][ConfigNext]_vars

SpecCalc == InitCalc /\ [][CalcNext]_vars

\* The inputs of the table of TestCalculatePacks that the engine's description
\* pins (item count, pack sizes as the test passes them).
PinnedInputs ==
    {<<750, <<250, 500, 1000>>>>, <<1000, <<250, 500, 1000>>>>, <<1000, <<100>>>>,
     <<100, <<7, 13>>>>, <<0, <<250, 500>>>>, <<100, <<250, 500>>>>,
     <<263, <<250, 500, 1000>>>>, <<7, <<3, 5>>>>}

InitPinned ==
    /\ StoreInit
    /\ HandlerInit
    /\ ConfigIdle
    /\ \E in \in PinnedInputs : items = in[1] /\ packSizes = in[2]
    /\ normalized = <<>> /\ dp = <<>> /\ choice = <<>>
    /\ sizeIdx = 0 /\ amount = 0 /\ remaining = 0
    /\ result = EmptyMap /\ calcErr = NoErr /\ cpc = "start"
    /\ earlier = <<>>

SpecPinned == InitPinned /\ [][CalcNext]_vars

\* ------------------------------------------------------------------------
\* Properties of the packing engine
\* ------------------------------------------------------------------------
Range(s) == {s[i] : i \in 1..Len(s)}

RECURSIVE SumOver(_, _)
SumOver(m, keys) ==
    IF keys = {} THEN 0
    ELSE LET k == CHOOSE x \in keys : TRUE
         IN m[k] + SumOver(m, keys \ {k})

\* sum of size * count over a distribution
TotalItems(m) == SumOver([k \in DOMAIN m |-> k * m[k]], DOMAIN m)

\* sum of the counts of a distribution
TotalPacks(m) == SumOver(m, DOMAIN m)

\* Brute force: the total pack counts of all the combinations c (a count >= 0
\* for each size in S) with sum of size * c[size] equal to n.
RECURSIVE FeasibleTotals(_, _)
FeasibleTotals(n, S) ==
    IF S = {} THEN (IF n = 0 THEN {0} ELSE {})
    ELSE LET s == CHOOSE x \in S : TRUE
         IN UNION {{c + t : t \in FeasibleTotals(n - c * s, S \ {s})} : c \in 0..(n \div s)}

\* A valid pack-size sequence: not empty, positive values only, at most 10
\* distinct values.
ValidPackSizes(sizes) ==
    /\ Len(sizes) > 0
    /\ \A i \in 1..Len(sizes) : sizes[i] > 0
    /\ Cardinality(Range(sizes)) <= 10

CalcSucceeded == cpc = "done" /\ calcErr = NoErr

\* C1 (exactness): whenever CalculatePacks returns without an error, the sum
\* of size * count over the returned map equals the item count.
CalcExactness ==
    CalcSucceeded => TotalItems(result) = items

\* A successful call whose distribution uses two sizes, one of them twice.
CalcExactnessWitness ==
    /\ CalcSucceeded
    /\ Cardinality(DOMAIN result) >= 2
    /\ \E k \in DOMAIN result : result[k] >= 2

\* C2 (minimality): whenever CalculatePacks returns without an error, the
\* number of packs it returns is at most the number of packs of every
\* combination of the given sizes that sums to the item count.
CalcMinimality ==
    CalcSucceeded =>
        \A t \in FeasibleTotals(items, Range(packSizes)) : TotalPacks(result) <= t

\* 6 items over {1, 3, 4}: taking the largest size first gives 4 + 1 + 1,
\* the minimum is 3 + 3.
CalcMinimalityWitness ==
    /\ CalcSucceeded
    /\ items = 6
    /\ Range(packSizes) = {1, 3, 4}
    /\ TotalPacks(result) = 2
    /\ 3 \in FeasibleTotals(items, Range(packSizes))

\* C3 (infeasibility): for a valid pack-size sequence and an item count > 0,
\* CalculatePacks returns ErrCannotFulfill exactly when no combination of the
\* sizes sums to the item count.
CalcInfeasibility ==
    (cpc = "done" /\ items > 0 /\ ValidPackSizes(packSizes)) =>
        (calcErr = ErrCannotFulfill <=> FeasibleTotals(items, Range(packSizes)) = {})

\* ErrCannotFulfill from the exit after the tables were filled: the item
\* count is not below the smallest size and still has no combination.
CalcInfeasibilityWitness ==
    /\ cpc = "done"
    /\ calcErr = ErrCannotFulfill
    /\ dp # <<>>
    /\ items >= Min(Range(packSizes))
    /\ Len(normalized) >= 2

\* ------------------------------------------------------------------------
\* Properties of the engine's validation and of its zero case
\* ------------------------------------------------------------------------
\* C11 (invalid pack sizes): for every item count >= 0, CalculatePacks
\* returns ErrInvalidPackSizes exactly when the pack-size sequence is empty,
\* contains a value <= 0, or has more than 10 distinct values; the length of
\* the sequence does not matter.
InvalidPackSizesExactly ==
    (cpc = "done" /\ items >= 0) =>
        (calcErr = ErrInvalidPackSizes <=> ~ValidPackSizes(packSizes))

\* 11 values of which 10 are distinct: accepted.
InvalidPackSizesExactlyWitness ==
    /\ cpc = "done"
    /\ items >= 0
    /\ packSizes = LongWithDuplicate
    /\ calcErr # ErrInvalidPackSizes

\* C12 (invalid items): for every negative item count CalculatePacks returns
\* ErrInvalidItems, whatever the pack sizes are.
NegativeItemsRejected ==
    (cpc = "done" /\ items < 0) => (calcErr = ErrInvalidItems /\ result = EmptyMap)

\* A negative item count together with pack sizes that are invalid too.
NegativeItemsRejectedWitness ==
    /\ cpc = "done"
    /\ items < 0
    /\ ~ValidPackSizes(packSizes)
    /\ calcErr = ErrInvalidItems

\* C13 (zero case): for an item count of 0 and every valid pack-size
\* sequence, CalculatePacks returns the empty distribution and no error.
ZeroItemsValidSizes ==
    (cpc = "done" /\ items = 0 /\ ValidPackSizes(packSizes)) =>
        (calcErr = NoErr /\ result = EmptyMap)

\* Zero items over valid sizes with a duplicate.
ZeroItemsValidSizesWitness ==
    /\ cpc = "done"
    /\ items = 0
    /\ ValidPackSizes(packSizes)
    /\ Len(packSizes) > Cardinality(Range(packSizes))
    /\ calcErr = NoErr
    /\ result = EmptyMap

\* C14 as stated (zero always succeeds): for an item count of 0 and every
\* pack-size sequence, CalculatePacks returns the empty distribution and no
\* error.
ZeroItemsAlwaysSucceeds ==
    (cpc = "done" /\ items = 0) => (calcErr = NoErr /\ result = EmptyMap)

\* C14 (zero against the validation): for an item count of 0 the outcome is
\* decided by the pack sizes alone: the empty distribution without an error
\* when they are valid, ErrInvalidPackSizes when they are not.
ZeroItemsFollowsValidation ==
    (cpc = "done" /\ items = 0) =>
        /\ result = EmptyMap
        /\ calcErr = (IF ValidPackSizes(packSizes) THEN NoErr ELSE ErrInvalidPackSizes)

\* Zero items over an invalid sequence: rejected.
ZeroItemsFollowsValidationWitness ==
    /\ cpc = "done"
    /\ items = 0
    /\ ~ValidPackSizes(packSizes)
    /\ calcErr = ErrInvalidPackSizes

PinnedScenarios ==
    cpc = "done" =>
        LET S == Range(packSizes)
            Returns(m) == calcErr = NoErr /\ result = m
        IN /\ (items = 750 /\ S = {250, 500, 1000}) => Returns(250 :> 1 @@ 500 :> 1)
           /\ (items = 1000 /\ S = {250, 500, 1000}) => Returns(1000 :> 1)
           /\ (items = 1000 /\ S = {100}) => Returns(100 :> 10)
           /\ (items = 100 /\ S = {7, 13}) => Returns(7 :> 5 @@ 13 :> 5)
           /\ (items = 100 /\ S = {250, 500}) => calcErr = ErrCannotFulfill
           /\ (items = 263 /\ S = {250, 500, 1000}) => calcErr = ErrCannotFulfill
           /\ (items = 7 /\ S = {3, 5}) => calcErr = ErrCannotFulfill

\* 100 items over {7, 13}: five packs of each.
PinnedScenariosWitness ==
    /\ cpc = "done"
    /\ items = 100
    /\ Range(packSizes) = {7, 13}
    /\ result = (7 :> 5 @@ 13 :> 5)

\* ------------------------------------------------------------------------
\* Properties of the store
\* ------------------------------------------------------------------------
\* The set a reader of the store would get now.
StoredSet == Content(storePackSizes)

\* C4 (no torn reads): the slice GetPackSizes returns is the whole set that
\* was committed when the call began or the whole set of a SetPackSizes that
\* committed during the call, never a mixture of two sets.
NoTornReads ==
    \A p \in Procs :
        pc[p] \in {"g_runlock", "g_ret"} => Content(ret[p]) \in ({before[p]} \cup during[p])

\* A GetPackSizes that returned the set a concurrent SetPackSizes installed
\* while the call was under way.
NoTornReadsWitness ==
    \E p \in Procs :
        /\ pc[p] = "g_ret"
        /\ during[p] # {}
        /\ Content(ret[p]) \in during[p]
        /\ Content(ret[p]) # before[p]

\* C5 (linearizability): a SetPackSizes that is about to return nil has put
\* its array into the store; a GetPackSizes reads an array the store pointed
\* at since the call began (so never one replaced before that) and what it
\* returns is the set committed last; and when no writer is inside its
\* critical section the store holds the normalized candidate of exactly one
\* writer, the one that committed last.
StoreLinearizable ==
    /\ \A q \in Procs : pc[q] = "s_unlock" => storePackSizes = norm[q]
    /\ \A p \in Procs : pc[p] \in {"g_loadlen", "g_clone"} => hdr[p].ptr \in seenPtr[p]
    /\ \A p \in Procs : pc[p] = "g_runlock" => Content(ret[p]) = Committed
    /\ mu.writer = None =>
            /\ StoredSet = Committed
            /\ storePackSizes.len = Len(heap[storePackSizes.ptr])

\* Both goroutines wrote, and a GetPackSizes that began after the last
\* SetPackSizes had returned got that call's set.
StoreLinearizableWitness ==
    \E p \in Procs : \E q \in Procs \ {p} :
        /\ pc[q] = "s_ret" /\ setErr[q] = NoErr
        /\ pc[p] = "g_ret" /\ during[p] = {}
        /\ before[p] = NormalForm(Content(arg[q]))
        /\ Content(ret[p]) = before[p]
        /\ storePackSizes.ptr = <<"norm2", q>>

\* C6 (atomicity on failure): SetPackSizes returns ErrInvalidPackSizes exactly
\* for the candidates that fail validation, and no step of a call up to that
\* return changes the stored set.
FailedSetLeavesStore ==
    /\ [](\A p \in Procs :
            pc[p] = "s_ret" =>
                (setErr[p] = ErrInvalidPackSizes <=> ~ValidPackSizes(Content(arg[p]))))
    /\ [][\A p \in Procs :
            (pc[p] # pc'[p] /\ (pc'[p] = "s_norm" \/ (pc[p] = "s_norm" /\ pc'[p] = "s_ret"))) =>
                /\ storePackSizes' = storePackSizes
                /\ ContentIn(heap', storePackSizes') = StoredSet
                /\ lastCandidate' = lastCandidate]_vars

\* SetPackSizes was refused 11 distinct sizes while the store held a set
\* other than the default one, and the store still holds that set.
FailedSetLeavesStoreWitness ==
    \E p \in Procs :
        /\ pc[p] = "s_ret"
        /\ setErr[p] = ErrInvalidPackSizes
        /\ Content(arg[p]) = TooManyDistinct
        /\ StoredSet = <<1, 2, 3>>

\* C7 (snapshot independence): a caller's write into a slice it got from
\* GetPackSizes, or into the slice it passed to SetPackSizes after the call
\* returned, changes neither the stored set nor a snapshot another caller
\* holds.
SnapshotIndependence ==
    [][\A p \in Procs :
        (pc[p] \in {"g_ret", "s_ret"} /\ pc'[p] = "idle") =>
            /\ ContentIn(heap', storePackSizes') = StoredSet
            /\ \A q \in Procs \ {p} : ContentIn(heap', ret'[q]) = Content(ret[q])]_vars

\* One caller wrote into the slice it had passed to a successful
\* SetPackSizes, the other into a snapshot it got afterwards; the store still
\* holds the set of that SetPackSizes.
SnapshotIndependenceWitness ==
    \E p \in Procs : \E q \in Procs \ {p} :
        /\ pc[q] = "idle" /\ setErr[q] = NoErr
        /\ arg[q].ptr # Nil /\ heap[arg[q].ptr][1] = TamperValue
        /\ pc[p] = "idle"
        /\ ret[p].ptr # Nil /\ heap[ret[p].ptr][1] = TamperValue
        /\ StoredSet = <<1, 2, 3>>

\* C8 (pack size set invariant): whenever no writer is inside its critical
\* section, the stored set has 1 to 10 members, all > 0, in strictly
\* ascending order (hence without duplicates).
StoredSetInvariant ==
    mu.writer = None =>
        /\ Len(StoredSet) >= 1
        /\ Len(StoredSet) <= 10
        /\ \A i \in 1..Len(StoredSet) : StoredSet[i] > 0
        /\ \A i \in 1..Len(StoredSet) : \A j \in 1..Len(StoredSet) :
                i < j => StoredSet[i] < StoredSet[j]

\* After a successful SetPackSizes of an unsorted slice with a duplicate and
\* a failed one.
StoredSetInvariantWitness ==
    /\ mu.writer = None
    /\ lastCandidate = UnsortedWithDuplicate
    /\ StoredSet = <<1, 2, 3>>
    /\ \E p \in Procs : pc[p] = "s_ret" /\ setErr[p] = ErrInvalidPackSizes

\* s holds exactly the values of c, each once, in ascending order.
IsNormalFormOf(s, c) ==
    /\ Range(s) = Range(c)
    /\ \A i \in 1..Len(s) : \A j \in 1..Len(s) : i < j => s[i] < s[j]

\* C9 (a successful replace normalizes): a GetPackSizes with no write since
\* the call began returns the distinct values, in ascending order, of the
\* slice passed to the last successful SetPackSizes.
ReplaceNormalizes ==
    \A p \in Procs :
        (pc[p] \in {"g_runlock", "g_ret"} /\ during[p] = {} /\ before[p] = Committed) =>
            IsNormalFormOf(Content(ret[p]), lastCandidate)

\* SetPackSizes([3, 1, 2, 2]) returned nil and the next GetPackSizes
\* returned [1, 2, 3].
ReplaceNormalizesWitness ==
    \E p \in Procs : \E q \in Procs \ {p} :
        /\ pc[q] = "s_ret" /\ setErr[q] = NoErr
        /\ Content(arg[q]) = UnsortedWithDuplicate
        /\ lastCandidate = UnsortedWithDuplicate
        /\ pc[p] = "g_ret" /\ during[p] = {} /\ before[p] = Committed
        /\ Content(ret[p]) = <<1, 2, 3>>

\* C10 (validation symmetry): the engine rejects a pack-size sequence with
\* ErrInvalidPackSizes exactly when the store's normalization rejects it;
\* when both accept, the engine's normalized sequence is the store's, and the
\* engine accepts the store's normalized sequence unchanged.
ValidationSymmetry ==
    (cpc # "start" /\ items >= 0) =>
        LET s == storageNormalizePackSizes(packSizes)
        IN /\ calcErr = ErrInvalidPackSizes <=> s.err # NoErr
           /\ s.err = NoErr =>
                /\ normalized = s.val
                /\ calcNormalizePackSizes(s.val) = s

\* 11 sizes of which 10 are distinct: accepted by both.
ValidationSymmetryWitness ==
    /\ cpc = "done"
    /\ items > 0
    /\ packSizes = LongWithDuplicate
    /\ calcErr = NoErr
    /\ normalized = storageNormalizePackSizes(packSizes).val

\* ------------------------------------------------------------------------
\* Properties of the HTTP handler
\* ------------------------------------------------------------------------
\* C16 (computation under concurrent updates): when the engine has returned
\* to a calculate request, it has computed on the snapshot the request read,
\* that snapshot was the store's committed set at some moment of the request,
\* and the outcome is exact, minimal and feasibility-correct for the
\* request's item count and that one set.
CalculateOnOneSnapshot ==
    \A p \in Procs :
        (hpc[p] = "c_calc" /\ cpc = "done") =>
            LET S == Range(snap[p])
                n == DecodeItems(req[p])
            IN /\ packSizes = snap[p]
               /\ snap[p] \in seen[p]
               /\ calcErr \in {NoErr, ErrCannotFulfill}
               /\ calcErr = ErrCannotFulfill <=> FeasibleTotals(n, S) = {}
               /\ calcErr = NoErr =>
                    /\ DOMAIN result \subseteq S
                    /\ TotalItems(result) = n
                    /\ \A t \in FeasibleTotals(n, S) : TotalPacks(result) <= t

\* The engine returned a distribution over the snapshot although another
\* pack-size set was committed while it ran, one for which the item count
\* has no combination.
CalculateOnOneSnapshotWitness ==
    \E p \in Procs :
        /\ hpc[p] = "c_calc" /\ cpc = "done"
        /\ calcErr = NoErr
        /\ Cardinality(seen[p]) >= 2
        /\ storageGetPackSizes # snap[p]
        /\ FeasibleTotals(DecodeItems(req[p]), Range(storageGetPackSizes)) = {}

\* C18 (calculate rejects items <= 0): a calculate request whose item count
\* is zero or negative is answered with 400 in the step that receives it; the
\* store has not been read and the engine has not been called for it.
CalculateRejectsNonPositive ==
    \A p \in Procs :
        (req[p].kind = "calculate" /\ req[p].wellFormed /\ DecodeItems(req[p]) <= 0) =>
            /\ hpc[p] = "idle"
            /\ resp[p].status = StatusBadRequest
            /\ touched[p] = {}

\* A request for zero items refused while the store holds sizes that the
\* engine would accept.
CalculateRejectsNonPositiveWitness ==
    \E p \in Procs :
        /\ req[p].kind = "calculate" /\ req[p].wellFormed
        /\ DecodeItems(req[p]) = 0
        /\ resp[p].status = StatusBadRequest
        /\ storageGetPackSizes = <<1, 2>>

InvalidPut(r) == r.kind = "put" /\ r.wellFormed /\ ~ValidPackSizes(DecodePackSizes(r))

Served(p) == <<hpc[p], req[p], resp[p]>>

\* C20 (a refused PUT changes nothing): a PUT with invalid packSizes is
\* answered with 400, and no step of such a request changes the stored pack
\* sizes or the update time, which are what a GET reports.
InvalidPutChangesNothing ==
    /\ [](\A p \in Procs : (InvalidPut(req[p]) /\ hpc[p] = "idle") =>
            resp[p].status = StatusBadRequest)
    /\ [][\A p \in Procs : (InvalidPut(req'[p]) /\ Served(p)' # Served(p)) =>
            /\ StoredSet' = StoredSet
            /\ packSizesUpdatedAt' = packSizesUpdatedAt]_vars

\* 11 distinct sizes refused by the store after an earlier PUT had replaced
\* the sizes: they and the update time are still those of the earlier PUT.
InvalidPutChangesNothingWitness ==
    \E p \in Procs :
        /\ hpc[p] = "idle"
        /\ InvalidPut(req[p]) /\ DecodePackSizes(req[p]) = TooManyDistinct
        /\ resp[p].status = StatusBadRequest
        /\ touched[p] = {"store"}
        /\ storageGetPackSizes = <<3, 5>>
        /\ packSizesUpdatedAt > 0

\* C21 (fields of a calculate response): in every 200 response to a
\* calculate request, totalItems is the item count asked for, remainder is 0,
\* totalPacks is the sum of the counts in packs, and every key of packs is
\* the decimal form of a size of the snapshot read for the request, with a
\* count >= 1.
CalculateResponseFields ==
    \A p \in Procs :
        (hpc[p] = "idle" /\ req[p].kind = "calculate" /\ resp[p].status = StatusOK) =>
            /\ resp[p].items = DecodeItems(req[p])
            /\ resp[p].totalItems = resp[p].items
            /\ resp[p].remainder = 0
            /\ resp[p].totalPacks = SumOver(resp[p].packs, DOMAIN resp[p].packs)
            /\ \A k \in DOMAIN resp[p].packs :
                /\ \E size \in Range(snap[p]) : k = Itoa(size)
                /\ resp[p].packs[k] >= 1

\* 7 items over {1, 2}: one pack of 1 and three of 2.
CalculateResponseFieldsWitness ==
    \E p \in Procs :
        /\ hpc[p] = "idle" /\ req[p].kind = "calculate"
        /\ resp[p].status = StatusOK
        /\ resp[p].packs = ("1" :> 1 @@ "2" :> 3)
        /\ resp[p].totalPacks = 4
        /\ storageGetPackSizes # snap[p]

\* C22 (a PUT is answered with its own sizes): every 200 response to a PUT
\* carries in packSizes the deduplicated, ascending form of the sizes that
\* the same request submitted, also when another PUT is served concurrently.
PutResponseEchoesRequest ==
    \A p \in Procs :
        (hpc[p] = "idle" /\ req[p].kind = "put" /\ resp[p].status = StatusOK) =>
            resp[p].packSizes = NormalForm(DecodePackSizes(req[p]))

\* ------------------------------------------------------------------------
\* Properties of the configuration
\* ------------------------------------------------------------------------
\* The value a source supplies for a setting, with the sources in the order
\* flags, YAML file, environment, defaults.
FirstGiven(cli, yaml, envv, def) ==
    IF cli.set THEN cli.val ELSE IF yaml.set THEN yaml.val ELSE IF envv.set THEN envv.val ELSE def

FromEnv(raw) == IF Len(raw) = 1 /\ raw[1].kind = "int" THEN Given(raw[1].value) ELSE Absent(0)

\* C23 (precedence of the sources): when Load succeeds, the port and the
\* pack sizes are those of the highest source that supplies them, in the
\* order flags > YAML file > environment > defaults, and so are the
\* rate-limit settings that the YAML file gives: a value of the file wins
\* over the same setting of the environment.
ConfigPrecedence ==
    (lpc = "done" /\ ~loadErr /\ file.status = "ok") =>
        /\ cfg.Port = FirstGiven(overrides.Port, file.port,
                                 IF environ.PORT # "" THEN Given(environ.PORT) ELSE Absent(""),
                                 defaultPort)
        /\ file.rps.set =>
                cfg.RateLimitRPS = FirstGiven(overrides.RateLimitRPS, file.rps,
                                              FromEnv(environ.RATE_LIMIT_RPS), defaultRateLimitRPS)
        /\ file.burst.set =>
                cfg.RateLimitBurst = FirstGiven(
                    IF overrides.RateLimitBurst.val >= 0 THEN overrides.RateLimitBurst ELSE Absent(0),
                    file.burst, FromEnv(environ.RATE_LIMIT_BURST), defaultRateLimitBurst)
        /\ cfg.InitialPackSizes = FirstGiven(
                IF overrides.PackSizesStr.set
                THEN Given(parsePackSizes(overrides.PackSizesStr.val).sizes) ELSE Absent(<<>>),
                file.pack_sizes,
                IF parsePackSizes(environ.PACK_SIZES).err
                THEN Absent(<<>>) ELSE Given(parsePackSizes(environ.PACK_SIZES).sizes),
                defaultPackSizes)

\* C30 (a YAML file leaves what it omits at the defaults): when the file
\* omits enable_request_logging and the rate_limit section, and neither the
\* environment nor a flag gives a rate limit, Load returns
\* EnableRequestLogging = true, RateLimitRPS = 25 and RateLimitBurst = 50.
YAMLOmissionsKeepDefaults ==
    (/\ lpc = "done" /\ ~loadErr /\ file.status = "ok"
     /\ ~file.enable_request_logging.set /\ ~file.rps.set /\ ~file.burst.set
     /\ environ.RATE_LIMIT_RPS = <<>> /\ environ.RATE_LIMIT_BURST = <<>>
     /\ ~overrides.RateLimitRPS.set /\ ~overrides.RateLimitBurst.set) =>
        /\ cfg.EnableRequestLogging = TRUE
        /\ cfg.RateLimitRPS = 25
        /\ cfg.RateLimitBurst = 50

\* ------------------------------------------------------------------------
\* Properties of the engine's tables
\* ------------------------------------------------------------------------
\* The least number of packs for n items over the first k sizes of the
\* normalized list, or the sentinel when there is no combination.
MinPacksUsing(n, k) ==
    LET T == FeasibleTotals(n, {normalized[j] : j \in 1..k})
    IN IF T = {} THEN Inf(items) ELSE Min(T)

\* The first pass of the outer loop after which n has its final cost.
FirstPass(n) ==
    Min({k \in 1..Len(normalized) : MinPacksUsing(n, k) = MinPacksUsing(n, Len(normalized))})

LoopsOver == cpc \in {"check", "reconstruct"}

\* C24 (tie-breaking): an iteration of the inner loop overwrites an entry of
\* the tables only with a strictly lower cost; once the loops are over the
\* choice of every reachable amount is the size of the first pass (sizes
\* ascending) in which the amount got its final cost, so a later equally cheap
\* alternative has not replaced it; and a second call with the same item
\* count and the same set of sizes returns the same distribution.
TieBreaking ==
    /\ [][cpc = "relax" =>
            \A i \in 1..items :
                (choice'[i] # choice[i] \/ dp'[i] # dp[i]) => dp'[i] < dp[i]]_vars
    /\ [](LoopsOver =>
            \A i \in 1..items :
                choice[i] # 0 - 1 => choice[i] = normalized[FirstPass(i)])
    /\ []((cpc = "done" /\ earlier # <<>> /\ calcErr = NoErr) =>
            result = earlier[1].result)

\* The loops are over and the item count has two equally cheap last packs:
\* the one of the earlier pass is the choice.
TieBreakingWitness ==
    /\ LoopsOver
    /\ \E a, b \in Range(normalized) :
            /\ a < b /\ b <= items
            /\ dp[items - a] + 1 = dp[items]
            /\ dp[items - b] + 1 = dp[items]
            /\ choice[items] = a

\* C25 (reconstruction): in the reconstruction loop remaining is never
\* negative; while it is positive 0 < choice[remaining] <= remaining; the
\* iterations done so far (one per pack counted) plus the cost of what remains
\* equal cost[items], so remaining reaches 0 after exactly cost[items]
\* iterations; and the loop never leaves through its `size <= 0` branch.
ReconstructionTerminates ==
    /\ [](cpc = "reconstruct" =>
            /\ remaining \in 0..items
            /\ remaining > 0 =>
                    (0 < choice[remaining] /\ choice[remaining] <= remaining)
            /\ TotalPacks(result) + dp[remaining] = dp[items]
            /\ dp[items] <= items)
    /\ [][(cpc = "reconstruct" /\ cpc' = "done") =>
            (remaining = 0 /\ calcErr' = NoErr /\ TotalPacks(result') = dp[items])]_vars

\* The loop is over after three iterations or more, over two sizes.
ReconstructionTerminatesWitness ==
    /\ cpc = "reconstruct"
    /\ remaining = 0
    /\ dp[items] >= 3
    /\ TotalPacks(result) = dp[items]
    /\ Cardinality(DOMAIN result) >= 2

InLoops == cpc \in {"relax", "check", "reconstruct"}

\* An entry of the tables that no pass has written.
Unreached(i) == dp[i] = items + 1 /\ choice[i] = 0 - 1

\* An entry written by a pass: its cost is between 1 and i, and its choice is
\* a pack size s <= i whose predecessor i - s has a cost below the sentinel.
Reached(i) ==
    /\ 1 <= dp[i] /\ dp[i] <= i /\ i <= items
    /\ choice[i] \in Range(normalized)
    /\ choice[i] <= i
    /\ dp[i - choice[i]] < items + 1

\* C26 (sentinel): at every point of the relaxation loops and after them,
\* every amount 1..items is either unreached (cost items + 1, choice -1) or
\* reached (1 <= cost <= amount, choice a pack size <= amount with a
\* reachable predecessor); and an iteration whose predecessor is unreachable
\* changes neither table.
SentinelInvariant ==
    /\ [](InLoops => (dp[0] = 0 /\ \A i \in 1..items : Unreached(i) \/ Reached(i)))
    /\ [][(cpc = "relax" /\ amount <= items
            /\ dp[amount - normalized[sizeIdx]] = items + 1) =>
                (dp' = dp /\ choice' = choice)]_vars

\* In the second pass or later, about to relax from an unreachable predecessor
\* an amount that is unreached, with another amount already reached at a cost
\* of two packs or more.
SentinelInvariantWitness ==
    /\ cpc = "relax"
    /\ sizeIdx >= 2
    /\ amount <= items
    /\ dp[amount - normalized[sizeIdx]] = items + 1
    /\ Unreached(amount)
    /\ \E j \in 1..items : Reached(j) /\ dp[j] >= 2

\* ------------------------------------------------------------------------
\* Progress of the store
\* ------------------------------------------------------------------------
HoldsRead(p) == pc[p] \in {"g_loadptr", "g_loadlen", "g_clone", "g_runlock"}

HoldsWrite(p) == pc[p] \in {"s_storeptr", "s_storelen", "s_unlock"}

\* A step of goroutine p inside a call.
CallStep(p) == RunStep(p) \/ RLock(p) \/ Lock(p)

\* C27 (no indefinite blocking): under a fair scheduler every call of
\* GetPackSizes and SetPackSizes returns; a goroutine holds the read lock
\* exactly between its RLock and its RUnlock and the write lock exactly
\* between its Lock and its Unlock, so each call takes the mutex at most once
\* and has released it when it returns; a SetPackSizes that fails validation
\* returns without touching the mutex; and whenever a call is in progress
\* some call in progress can take a step (no deadlock).
StoreNeverBlocks ==
    /\ \A p \in Procs : (~CallReady(p)) ~> CallReady(p)
    /\ [](\A p \in Procs :
            /\ (p \in mu.readers) <=> HoldsRead(p)
            /\ (mu.writer = p) <=> HoldsWrite(p))
    /\ [][\A p \in Procs :
            (pc[p] = "s_norm" /\ pc'[p] = "s_ret") =>
                (mu' = mu /\ setErr'[p] = ErrInvalidPackSizes)]_vars
    /\ []((\E p \in Procs : ~CallReady(p)) =>
            \E q \in Procs : ~CallReady(q) /\ ENABLED CallStep(q))

\* A writer waits at Lock while the other goroutine holds the read lock.
StoreNeverBlocksWitness ==
    \E p, q \in Procs :
        /\ pc[p] = "s_lock"
        /\ HoldsRead(q)
        /\ q \in mu.readers

\* ------------------------------------------------------------------------
\* Properties of the handler over the store
\* ------------------------------------------------------------------------
\* C28 (no internal error): over the in-memory store, whatever PUT and
\* calculate requests came before, the engine returns to handleCalculate
\* with no error or with ErrCannotFulfill, never with ErrInvalidPackSizes or
\* ErrInvalidItems; so the response to a calculate request for more than zero
\* items has status 200 or 422, never 500 and never the 400 written for an
\* error of the engine.
CalculateNeverInternalError ==
    \A p \in Procs :
        /\ (hpc[p] = "c_calc" /\ cpc = "done") =>
                calcErr \in {NoErr, ErrCannotFulfill}
        /\ (/\ hpc[p] = "idle" /\ req[p].kind = "calculate" /\ req[p].wellFormed
            /\ DecodeItems(req[p]) > 0) =>
                resp[p].status \in {StatusOK, StatusUnprocessableEntity}

\* The engine has returned to a calculate request that began after a PUT
\* replaced the stored sizes, and a PUT of invalid sizes was refused.
CalculateNeverInternalErrorWitness ==
    \E p, q \in Procs :
        /\ hpc[p] = "c_calc" /\ cpc = "done"
        /\ calcErr = NoErr
        /\ snap[p] = <<1, 2>>
        /\ req[q].kind = "put" /\ DecodePackSizes(req[q]) = <<0>>
        /\ resp[q].status = StatusBadRequest

====
